---- MODULE Spec2Model ----
(***************************************************************************)
(* Model of the aggregation and ranking engine of the YH dashboard         *)
(* (backend/data_processing.py).                                           *)
(*                                                                         *)
(* Representation.                                                         *)
(*   - A text is a sequence of characters (one-character strings); column  *)
(*     names are texts whose elements may be whole words, so that          *)
(*     strip / casefold / startswith / concatenation act on them as the    *)
(*     Python string methods do.                                           *)
(*   - A cell is a tagged record: Str(text), Num(n) or NaN (pandas'        *)
(*     missing value; DuckDB reads it as NULL).                            *)
(*   - A DataFrame is [cols |-> sequence of column names,                 *)
(*     rows |-> sequence of functions from column name to cell].           *)
(*   - A percentage rounded to one decimal is held in tenths of a percent  *)
(*     (66.7 % is 667).                                                    *)
(***************************************************************************)
EXTENDS Integers, Sequences, FiniteSets, TLC

VARIABLES
    df,     \* the record set handed to the operation (the caller's frame)
    apps,   \* the applications sheet on disk, as read_excel would return it
    call,   \* the operation last invoked, with its arguments
    ret,    \* what that operation returned
    state   \* the variables of the page being shown (the GUI state)

vars == <<df, apps, call, ret, state>>

(***************************************************************************)
(* Bounds of the model.                                                    *)
(***************************************************************************)
MaxRows == 3
MaxProviderRows == 3
MaxCount == 59
MaxBaseRows == 2
MaxAppsRows == 2
MaxNameLen == 2
MaxRegions == 2
MaxTotal == 5
MaxRateRows == 2
MaxRateCount == 1
MaxSeatRows == 2
MaxViewRows == 2
MaxCompRows == 3
MaxCountyRows == 2
MaxCallRows == 2

(***************************************************************************)
(* Cells and texts.                                                        *)
(***************************************************************************)
NaN == [t |-> "nan"]
Str(s) == [t |-> "str", s |-> s]
Num(n) == [t |-> "num", n |-> n]
NoneArg == [t |-> "none"]

IsNaN(v) == v.t = "nan"
IsStr(v) == v.t = "str"
IsNum(v) == v.t = "num"

\* str.isspace() for one character of the model's alphabet
IsSpace(ch) == ch = " "

RECURSIVE LStrip(_)
LStrip(s) == IF s # <<>> /\ IsSpace(Head(s)) THEN LStrip(Tail(s)) ELSE s

RECURSIVE RStrip(_)
RStrip(s) ==
    IF s # <<>> /\ IsSpace(s[Len(s)]) THEN RStrip(SubSeq(s, 1, Len(s) - 1)) ELSE s

\* str.strip()
Strip(s) == RStrip(LStrip(s))

\* Series.astype(str): the text pandas gives a cell (a missing value reads "nan")
AsStr(v) ==
    IF IsStr(v) THEN v.s
    ELSE IF IsNaN(v) THEN <<"n", "a", "n">>
    ELSE <<ToString(v.n)>>

\* elementwise == of a column against a text literal: False for NaN and numbers
CellEq(v, s) == IsStr(v) /\ v.s = s

\* code point of a character, for the ordering of texts
Ord(ch) ==
    CASE ch = " " -> 32
      [] ch = "A" -> 65
      [] ch = "B" -> 66
      [] ch = "C" -> 67
      [] ch = "X" -> 88
      [] ch = "Y" -> 89
      [] ch = "Z" -> 90
      [] ch = "a" -> 97
      [] ch = "b" -> 98
      [] ch = "c" -> 99
      [] ch = "n" -> 110

\* s < t in the code-point (binary) order of texts
RECURSIVE TextLess(_, _)
TextLess(s, t) ==
    IF t = <<>> THEN FALSE
    ELSE IF s = <<>> THEN TRUE
    ELSE IF Head(s) = Head(t) THEN TextLess(Tail(s), Tail(t))
    ELSE Ord(Head(s)) < Ord(Head(t))

(***************************************************************************)
(* Sequence helpers.                                                       *)
(***************************************************************************)
Range(s) == {s[i] : i \in DOMAIN s}

RECURSIVE SumSeq(_)
SumSeq(s) == IF s = <<>> THEN 0 ELSE Head(s) + SumSeq(Tail(s))

\* all orderings of the set S as sequences
Perms(S) ==
    {p \in [1..Cardinality(S) -> S] : \A i, j \in DOMAIN p : i # j => p[i] # p[j]}

(***************************************************************************)
(* Rounding.                                                               *)
(***************************************************************************)
\* round((num / den) * 100, 1) in tenths (Python round, numpy round), for
\* 0 <= num <= den < 400.  The rounding is that of the double (num / den) * 100:
\* the nearest tenth, an exact tie to even.  The double is the exact quotient
\* wherever that decides the tenth, except for three quotients that are exact
\* ties: 23/80 * 100 is 28.749999999999996 (28.7), 49/80 * 100 is
\* 61.25000000000001 (61.3) and 51/80 * 100 is 63.74999999999999 (63.7).
RoundHalfEven10(num, den) ==
    LET n == num * 1000
        q == n \div den
        r == n % den
    IN  IF 80 * num = 23 * den THEN 287
        ELSE IF 80 * num = 49 * den THEN 613
        ELSE IF 80 * num = 51 * den THEN 637
        ELSE IF 2 * r < den THEN q
        ELSE IF 2 * r > den THEN q + 1
        ELSE IF q % 2 = 0 THEN q ELSE q + 1

(***************************************************************************)
(* Column names and literals (utils/constants.py).                         *)
(***************************************************************************)
COL_LAN == <<"Län">>
COL_BESLUT == <<"Beslut">>
COL_EDUCATION_AREA == <<"Utbildningsområde">>
COL_ANORDNARE == <<"Anordnare namn">>
COL_TOTAL_SOKTA == <<"Totalt antal sökta platser">>
COL_TOTAL_BEVILJADE_PLATSER == <<"Totalt antal beviljade platser">>
BESLUT_BEVILJAD == <<"Beviljad">>
BESLUT_AVSLAG == <<"Avslag">>
REQUIRED_COLUMNS == {COL_LAN, COL_BESLUT, COL_EDUCATION_AREA}

Columns(d) == Range(d.cols)

\* DataFrame.empty: no rows or no columns
IsEmpty(d) == Len(d.rows) = 0 \/ Len(d.cols) = 0

\* the distinct values of a finite set of texts, ascending
RECURSIVE SortTexts(_)
SortTexts(S) ==
    IF S = {} THEN <<>>
    ELSE LET m == CHOOSE x \in S : \A y \in S \ {x} : TextLess(x, y)
         IN  <<m>> \o SortTexts(S \ {m})

(***************************************************************************)
(* Scope statistics: get_statistics.                                       *)
(***************************************************************************)
\* _validate_df: TRUE when no required column is missing (else ValueError)
_validate_df(d) == REQUIRED_COLUMNS \subseteq Columns(d)

\* value of a decimal digit, -1 for any other character
DigitValue(ch) ==
    CASE ch = "0" -> 0 [] ch = "1" -> 1 [] ch = "2" -> 2 [] ch = "3" -> 3
      [] ch = "4" -> 4 [] ch = "5" -> 5 [] ch = "6" -> 6 [] ch = "7" -> 7
      [] ch = "8" -> 8 [] ch = "9" -> 9 [] OTHER -> -1

IsDigits(s) == s # <<>> /\ \A i \in DOMAIN s : DigitValue(s[i]) >= 0

RECURSIVE Decimal(_)
Decimal(s) ==
    IF s = <<>> THEN 0
    ELSE 10 * Decimal(SubSeq(s, 1, Len(s) - 1)) + DigitValue(s[Len(s)])

\* pd.to_numeric accepts the cell: a number, a missing value or a text of digits
\* (the other texts of the model hold a letter and raise ValueError)
CanBeNumeric(v) == IsNum(v) \/ IsNaN(v) \/ (IsStr(v) /\ IsDigits(v.s))

\* pd.to_numeric of a cell it accepts
ToNumeric(v) == IF IsStr(v) THEN Num(Decimal(v.s)) ELSE v

\* pd.to_numeric(errors="coerce") of one cell: a number, or NaN
ToNumericCoerce(v) == IF CanBeNumeric(v) THEN ToNumeric(v) ELSE NaN

\* _sum_col_numeric: the sum of the numeric cells of col, 0 without the column
_sum_col_numeric(d, col) ==
    IF col \in Columns(d)
    THEN SumSeq([i \in DOMAIN d.rows |->
                    IF IsNum(ToNumericCoerce(d.rows[i][col]))
                    THEN ToNumericCoerce(d.rows[i][col]).n ELSE 0])
    ELSE 0

SUMMARY_AREA == <<"Utbildningsområde">>
SUMMARY_REQUESTED == <<"Ansökta utbildningar">>
SUMMARY_APPROVED == <<"Beviljade utbildningar">>
SUMMARY_RATE == <<"Beviljandegrad">>
SUMMARY_COLUMNS == <<SUMMARY_AREA, SUMMARY_REQUESTED, SUMMARY_APPROVED, SUMMARY_RATE>>

\* the rows of the scope: all rows, or those whose stripped Län is the stripped county
ScopeRows(d, county) ==
    IF county # NoneArg
    THEN LET sel == Strip(AsStr(county))
             Keep(r) == Strip(AsStr(r[COL_LAN])) = sel
         IN  SelectSeq(d.rows, Keep)
    ELSE d.rows

\* the label of the scope ("label or sel", "label or the single Län or Sverige")
ScopeLabel(d, county, label) ==
    LET given == label # NoneArg /\ label.s # <<>>
    IN  IF given THEN label.s
        ELSE IF county # NoneArg THEN Strip(AsStr(county))
        ELSE LET uniq == {r[COL_LAN] : r \in {x \in Range(d.rows) : ~IsNaN(x[COL_LAN])}}
             IN  IF Cardinality(uniq) = 1
                 THEN (CHOOSE u \in uniq : TRUE).s
                 ELSE <<"Sverige">>

IsApproved(r) == CellEq(r[COL_BESLUT], BESLUT_BEVILJAD)

\* mutant: every decision that is not 'Beviljad' counted as rejected
IsRejected_NotApproved(r) == ~CellEq(r[COL_BESLUT], BESLUT_BEVILJAD)

IsRejected(r) == CellEq(r[COL_BESLUT], BESLUT_AVSLAG)

\* mutant: the ratio taken the wrong way round (total / approved)
ApprovalRate_Inverted(approved, total) ==
    IF approved # 0 THEN RoundHalfEven10(total, approved) ELSE 0

\* round(approved / total * 100, 1) if total else 0.0
ApprovalRate(approved, total) ==
    IF total # 0 THEN RoundHalfEven10(approved, total) ELSE 0

\* groupby(COL_EDUCATION_AREA): the group keys; pandas drops missing keys
AreaKeys(rows) ==
    {r[COL_EDUCATION_AREA].s : r \in {x \in Range(rows) : IsStr(x[COL_EDUCATION_AREA])}}

\* groupby(...).size() for one key
AreaSize(rows, a) ==
    LET InArea(r) == CellEq(r[COL_EDUCATION_AREA], a) IN Len(SelectSeq(rows, InArea))

\* one row of the breakdown
SummaryRow(rows, a) ==
    LET requested == AreaSize(rows, a)
        approved == AreaSize(SelectSeq(rows, IsApproved), a)
    IN  (SUMMARY_AREA :> Str(a)) @@ (SUMMARY_REQUESTED :> requested)
        @@ (SUMMARY_APPROVED :> approved)
        @@ (SUMMARY_RATE :> RoundHalfEven10(approved, requested))

\* mutant: only the areas of the approved series (an inner join)
SummaryByArea_ApprovedOnly(rows) ==
    LET keys == SortTexts(AreaKeys(SelectSeq(rows, IsApproved)))
    IN  [i \in DOMAIN keys |-> SummaryRow(rows, keys[i])]

\* concat(total_series, approved_series).fillna(0).reset_index(): by area key
SummaryByArea(rows) ==
    LET keys == SortTexts(AreaKeys(rows) \cup AreaKeys(SelectSeq(rows, IsApproved)))
    IN  [i \in DOMAIN keys |-> SummaryRow(rows, keys[i])]

\* sort_values("Ansökta utbildningar"): every ascending order of the rows
\* (the default sort kind is not stable, so equal counts may come in any order)
SortedByRequested(byArea) ==
    {p \in Perms(Range(byArea)) :
        \A i \in 1..(Len(p) - 1) : p[i][SUMMARY_REQUESTED] <= p[i + 1][SUMMARY_REQUESTED]}

\* the stats dictionary of a scope
ScopeStats(d, county, label) ==
    LET scope == ScopeRows(d, county)
        scope_df == [cols |-> d.cols, rows |-> scope]
        total_courses == Len(scope)
        approved_courses == Len(SelectSeq(scope, IsApproved))
        rejected_courses == Len(SelectSeq(scope, IsRejected))
    IN  ("Län" :> ScopeLabel(scope_df, county, label))
        @@ ("Ansökta Kurser" :> total_courses)
        @@ ("Beviljade" :> approved_courses)
        @@ ("Avslag" :> rejected_courses)
        @@ ("Beviljandegrad (%)" :> ApprovalRate(approved_courses, total_courses))
        @@ ("Ansökta platser" :> _sum_col_numeric(scope_df, COL_TOTAL_SOKTA))
        @@ ("Beviljade platser" :> _sum_col_numeric(scope_df, COL_TOTAL_BEVILJADE_PLATSER))

\* mutant: a missing required column is patched over: the scope statistics
\* come back with an empty breakdown instead of the ValueError
get_statistics_PatchMissing(d, county, label) ==
    IF ~_validate_df(d)
    THEN {[raised |-> "", summary |-> [cols |-> SUMMARY_COLUMNS, rows |-> <<>>],
           stats |-> ScopeStats(d, county, label)]}
    ELSE LET scope == ScopeRows(d, county)
             stats == ScopeStats(d, county, label)
         IN  IF scope = <<>>
             THEN {[raised |-> "", summary |-> [cols |-> SUMMARY_COLUMNS, rows |-> <<>>],
                    stats |-> stats]}
             ELSE {[raised |-> "", summary |-> [cols |-> SUMMARY_COLUMNS, rows |-> s],
                    stats |-> stats] : s \in SortedByRequested(SummaryByArea(scope))}

\* get_statistics: the set of results the call can return (a raised ValueError,
\* or a (summary, stats) pair for each order the unstable sort can give)
get_statistics(d, county, label) ==
    IF ~_validate_df(d) THEN {[raised |-> "ValueError"]}
    ELSE LET scope == ScopeRows(d, county)
             stats == ScopeStats(d, county, label)
         IN  IF scope = <<>>
             THEN {[raised |-> "", summary |-> [cols |-> SUMMARY_COLUMNS, rows |-> <<>>],
                    stats |-> stats]}
             ELSE {[raised |-> "", summary |-> [cols |-> SUMMARY_COLUMNS, rows |-> s],
                    stats |-> stats] : s \in SortedByRequested(SummaryByArea(scope))}

(***************************************************************************)
(* Provider ranking: summarize_providers (a DuckDB query over the frame).  *)
(* A SQL NULL is the cell NaN.                                             *)
(***************************************************************************)
\* str.startswith
StartsWith(s, prefix) == Len(prefix) <= Len(s) /\ SubSeq(s, 1, Len(prefix)) = prefix

\* SQL TRIM(x): spaces removed at both ends, NULL for NULL
SqlTrim(v) == IF IsStr(v) THEN Str(Strip(v.s)) ELSE NaN

\* SQL COALESCE(x, 0) of a numeric cell, as a number
Coalesce0(v) == IF IsNum(v) THEN v.n ELSE 0

\* SQL SUM over cells: NULLs are skipped, and the sum of no value is NULL
SqlSum(cells) ==
    IF \A i \in DOMAIN cells : ~IsNum(cells[i]) THEN NaN
    ELSE Num(SumSeq([i \in DOMAIN cells |-> Coalesce0(cells[i])]))

\* SQL ROUND(x, 1) of 100 * num / den in tenths: ties away from zero (num, den >= 0)
RoundHalfUp10(num, den) == (2 * 1000 * num + den) \div (2 * den)

\* mutant: the rate left NULL when the denominator is NULL or 0 (no COALESCE)
SqlRate_NoCoalesce(num, den) ==
    IF ~IsNum(den) \/ den.n = 0 THEN NaN ELSE Num(RoundHalfUp10(num, den.n))

\* COALESCE(ROUND(100.0 * num / NULLIF(den, 0), 1), 0.0)
SqlRate(num, den) ==
    IF ~IsNum(den) \/ den.n = 0 THEN Num(0) ELSE Num(RoundHalfUp10(num, den.n))

GRANTED_CANDIDATES ==
    << <<"Totalt antal beviljade platser">>,
       <<"Beviljade platser totalt">>,
       COL_TOTAL_BEVILJADE_PLATSER >>

\* next((c for c in granted_candidates if c in df.columns), None)
GrantedCol(d) ==
    LET hits == SelectSeq(GRANTED_CANDIDATES, LAMBDA c : c \in Columns(d))
    IN  IF hits = <<>> THEN NoneArg ELSE Str(Head(hits))

SOKTA_PLATSER_TOTALT == <<"Sökta platser totalt">>
YEAR_COL_PREFIX == <<"Sökt antal platser", " ">>

\* the columns named 'Sökt antal platser <year>'
YearCols(d) == SelectSeq(d.cols, LAMBDA c : StartsWith(c, YEAR_COL_PREFIX))

\* mutant: the year columns preferred over the pre-aggregated total
AppliedExpr_YearsFirst(d, r) ==
    LET year_cols == YearCols(d)
    IN  IF year_cols # <<>>
        THEN Num(SumSeq([i \in DOMAIN year_cols |-> Coalesce0(r[year_cols[i]])]))
        ELSE IF COL_TOTAL_SOKTA \in Columns(d) THEN ToNumericCoerce(r[COL_TOTAL_SOKTA])
        ELSE IF SOKTA_PLATSER_TOTALT \in Columns(d)
        THEN ToNumericCoerce(r[SOKTA_PLATSER_TOTALT])
        ELSE Num(0)

\* applied_expr evaluated on one row: the total column, else the alternative
\* total column, else the COALESCEd sum of the year columns, else the literal 0
AppliedExpr(d, r) ==
    IF COL_TOTAL_SOKTA \in Columns(d) THEN ToNumericCoerce(r[COL_TOTAL_SOKTA])
    ELSE IF SOKTA_PLATSER_TOTALT \in Columns(d) THEN ToNumericCoerce(r[SOKTA_PLATSER_TOTALT])
    ELSE LET year_cols == YearCols(d)
         IN  Num(SumSeq([i \in DOMAIN year_cols |-> Coalesce0(r[year_cols[i]])]))

\* mutant: GROUP BY the raw provider name (the TRIM missing from the GROUP BY)
GroupKey_Raw(provider_col, r) == r[provider_col]

\* GROUP BY TRIM("provider_col")
GroupKey(provider_col, r) == SqlTrim(r[provider_col])

OUT_RANK_PLATSER == <<"Ranking beviljade platser">>
OUT_PROVIDER == <<"Anordnare namn">>
OUT_BEVILJADE_PLATSER == <<"Beviljade platser">>
OUT_SOKTA_PLATSER == <<"Sökta platser">>
OUT_RATE_PLATSER == <<"Beviljandegrad (platser) %">>
OUT_BEVILJADE_KURSER == <<"Beviljade kurser">>
OUT_SOKTA_KURSER == <<"Sökta kurser">>
OUT_RATE_KURSER == <<"Beviljandegrad (kurser) %">>
OUT_RANK_KURSER == <<"Ranking beviljade kurser">>

\* one row of the CTE agg: the aggregates of the group with key k
AggRow(d, provider_col, granted_col, k) ==
    LET members == SelectSeq(d.rows, LAMBDA r : GroupKey(provider_col, r) = k)
        beviljade_platser ==
            SumSeq([i \in DOMAIN members |-> Coalesce0(members[i][granted_col])])
        sokta_platser == SqlSum([i \in DOMAIN members |-> AppliedExpr(d, members[i])])
        beviljade_kurser == Len(SelectSeq(members, IsApproved))
        sokta_kurser == Len(members)
    IN  (OUT_PROVIDER :> SqlTrim(k))
        @@ (OUT_BEVILJADE_PLATSER :> Num(beviljade_platser))
        @@ (OUT_SOKTA_PLATSER :> sokta_platser)
        @@ (OUT_RATE_PLATSER :> SqlRate(beviljade_platser, sokta_platser))
        @@ (OUT_BEVILJADE_KURSER :> Num(beviljade_kurser))
        @@ (OUT_SOKTA_KURSER :> Num(sokta_kurser))
        @@ (OUT_RATE_KURSER :> SqlRate(beviljade_kurser, Num(sokta_kurser)))

\* ORDER BY x DESC on one numeric value (NULLS LAST): a sorts strictly before b
DescBefore(a, b) == IsNum(a) /\ (~IsNum(b) \/ a.n > b.n)

\* ORDER BY primary DESC, tiebreak DESC: row a sorts strictly before row b
KeyBefore(a, b, primary, tiebreak) ==
    \/ DescBefore(a[primary], b[primary])
    \/ a[primary] = b[primary] /\ DescBefore(a[tiebreak], b[tiebreak])

\* the ordering key of a row
RankKey(a, primary, tiebreak) == <<a[primary], a[tiebreak]>>

\* mutant: RANK() in place of DENSE_RANK(): one more than the number of rows before
Rank_Plain(agg, a, primary, tiebreak) ==
    1 + Cardinality({i \in DOMAIN agg : KeyBefore(agg[i], a, primary, tiebreak)})

\* mutant: the tie-break column left out of the window's ORDER BY
DenseRank_PrimaryOnly(agg, a, primary, tiebreak) ==
    1 + Cardinality({agg[i][primary] : i \in {j \in DOMAIN agg :
                        DescBefore(agg[j][primary], a[primary])}})

\* mutant: the window ordered by the rate first and the count second
DenseRank_RateFirst(agg, a, primary, tiebreak) ==
    1 + Cardinality({RankKey(agg[i], primary, tiebreak) :
                        i \in {j \in DOMAIN agg : KeyBefore(agg[j], a, tiebreak, primary)}})

\* DENSE_RANK() OVER (ORDER BY primary DESC, tiebreak DESC): one more than the
\* number of distinct ordering keys that sort strictly before the row's key
DenseRank(agg, a, primary, tiebreak) ==
    1 + Cardinality({RankKey(agg[i], primary, tiebreak) :
                        i \in {j \in DOMAIN agg : KeyBefore(agg[j], a, primary, tiebreak)}})

\* mutant: the courses window tie-broken by the seats approval rate
RankedRows_CoursesBySeatsRate(agg) ==
    [i \in DOMAIN agg |->
        agg[i]
        @@ (OUT_RANK_PLATSER :>
                DenseRank(agg, agg[i], OUT_BEVILJADE_PLATSER, OUT_RATE_PLATSER))
        @@ (OUT_RANK_KURSER :>
                DenseRank(agg, agg[i], OUT_BEVILJADE_KURSER, OUT_RATE_PLATSER))]

\* the final SELECT: the aggregates with the two dense ranks
RankedRows(agg) ==
    [i \in DOMAIN agg |->
        agg[i]
        @@ (OUT_RANK_PLATSER :>
                DenseRank(agg, agg[i], OUT_BEVILJADE_PLATSER, OUT_RATE_PLATSER))
        @@ (OUT_RANK_KURSER :>
                DenseRank(agg, agg[i], OUT_BEVILJADE_KURSER, OUT_RATE_KURSER))]

\* ORDER BY "Anordnare namn" ASC (NULLS LAST): a strictly before b
NameBefore(a, b) == IsStr(a) /\ (~IsStr(b) \/ TextLess(a.s, b.s))

\* ORDER BY "Ranking beviljade platser" ASC, "Anordnare namn" ASC: row a may
\* stand before row b (it does not sort strictly after it)
OutputOrderOk(a, b) ==
    \/ a[OUT_RANK_PLATSER] < b[OUT_RANK_PLATSER]
    \/ /\ a[OUT_RANK_PLATSER] = b[OUT_RANK_PLATSER]
       /\ ~NameBefore(b[OUT_PROVIDER], a[OUT_PROVIDER])

\* the group keys, in some enumeration order (a hash aggregate has no order)
GroupKeys(d, provider_col) == {GroupKey(provider_col, r) : r \in Range(d.rows)}

\* every order the query may return the ranked rows in: all arrangements that
\* respect the ORDER BY (rows that compare equal may come in any order)
OrderedOutputs(ranked) ==
    {[i \in DOMAIN ranked |-> ranked[p[i]]] :
        p \in {q \in Perms(DOMAIN ranked) :
                  \A i \in 1..(Len(ranked) - 1) :
                      OutputOrderOk(ranked[q[i]], ranked[q[i + 1]])}}

\* a sequence enumerating the finite set S
RECURSIVE SetToSeq(_)
SetToSeq(S) ==
    IF S = {} THEN <<>>
    ELSE LET x == CHOOSE y \in S : TRUE IN <<x>> \o SetToSeq(S \ {x})

\* summarize_providers: the set of results the call can return
summarize_providers(d, provider_col) ==
    IF provider_col \notin Columns(d) \/ COL_BESLUT \notin Columns(d)
    THEN {[raised |-> "ValueError"]}
    ELSE IF GrantedCol(d) = NoneArg THEN {[raised |-> "ValueError"]}
    ELSE LET keys == SetToSeq(GroupKeys(d, provider_col))
             agg == [i \in DOMAIN keys |->
                        AggRow(d, provider_col, GrantedCol(d).s, keys[i])]
         IN  {[raised |-> "", out |-> o] : o \in OrderedOutputs(RankedRows(agg))}

(***************************************************************************)
(* Cohort / gender analytics: prepare_yearly_gender_data and               *)
(* calculate_gender_distribution.                                          *)
(***************************************************************************)
COL_KON == <<"kön">>
COL_OMRADE == <<"utbildningsområde">>
COL_ALDER == <<"ålder">>
COL_AR == <<"år">>
COL_ANTAL == <<"antal">>
ID_VARS == <<COL_KON, COL_OMRADE, COL_ALDER>>

\* str.lower() of one word of the cohort vocabulary
LowerWord(w) ==
    CASE w = "Kvinnor" -> "kvinnor"
      [] w = "Män" -> "män"
      [] w = "Totalt" -> "totalt"
      [] w = "Data/IT" -> "data/it"
      [] OTHER -> w

\* Series.str.lower() of a cell: the lower-cased text; a missing value stays
\* missing (and equals no text)
Lower(v) == IF IsStr(v) THEN [i \in DOMAIN v.s |-> LowerWord(v.s[i])] ELSE NaN

\* concatenation of a sequence of sequences
RECURSIVE Flatten(_)
Flatten(ss) == IF ss = <<>> THEN <<>> ELSE Head(ss) \o Flatten(Tail(ss))

\* DataFrame.melt(id_vars, var_name="år", value_name="antal"): one long row per
\* value column and wide row, column by column
Melt(d) ==
    LET value_cols == SelectSeq(d.cols, LAMBDA c : c \notin Range(ID_VARS))
        LongRow(r, c) ==
            (COL_KON :> r[COL_KON]) @@ (COL_OMRADE :> r[COL_OMRADE])
            @@ (COL_ALDER :> r[COL_ALDER]) @@ (COL_AR :> Str(c)) @@ (COL_ANTAL :> r[c])
    IN  [cols |-> ID_VARS \o <<COL_AR, COL_ANTAL>>,
         rows |-> Flatten([j \in DOMAIN value_cols |->
                            [i \in DOMAIN d.rows |-> LongRow(d.rows[i], value_cols[j])]])]

EMPTY_FRAME == [cols |-> <<>>, rows |-> <<>>]

\* prepare_yearly_gender_data: the long rows of the all-ages, all-areas totals
prepare_yearly_gender_data(d) ==
    IF IsEmpty(d) THEN EMPTY_FRAME
    ELSE LET df_long == IF COL_AR \notin Columns(d) THEN Melt(d) ELSE d
             IsTotal(r) ==
                 /\ Lower(r[COL_ALDER]) = <<"totalt">>
                 /\ Lower(r[COL_OMRADE]) = <<"totalt">>
         IN  [cols |-> df_long.cols, rows |-> SelectSeq(df_long.rows, IsTotal)]

\* the sum of antal over the rows of one gender
GenderTotal(rows, gender) ==
    LET mine == SelectSeq(rows, LAMBDA r : Lower(r[COL_KON]) = gender)
    IN  SumSeq([i \in DOMAIN mine |-> mine[i][COL_ANTAL].n])

\* Python round(n / d): to the nearest integer, ties to even (n >= 0, d > 0)
RoundHalfEven(n, d) ==
    LET q == n \div d
        r == n % d
    IN  IF 2 * r < d THEN q
        ELSE IF 2 * r > d THEN q + 1
        ELSE IF q % 2 = 0 THEN q ELSE q + 1

Abs(x) == IF x < 0 THEN -x ELSE x

MAX_DENOMINATOR == 10

\* the numerators round(share * denominator) of one denominator
WomenNumerator(w, m, denominator) == RoundHalfEven(w * denominator, w + m)
MenNumerator(w, m, denominator) == RoundHalfEven(m * denominator, w + m)

\* error = abs(test_women_pct - women_pct_value) + abs(test_men_pct - men_pct_value)
\* as the fraction num / den
RatioError(w, m, wn, mn) ==
    [num |-> Abs(wn * (w + m) - w * (wn + mn)) + Abs(mn * (w + m) - m * (wn + mn)),
     den |-> (wn + mn) * (w + m)]

ErrLess(e1, e2) == e1.num * e2.den < e2.num * e1.den
ErrEqual(e1, e2) == e1.num * e2.den = e2.num * e1.den

\* error < 0.01, and error = 0.01 exactly
ErrBelowThreshold(e) == 100 * e.num < e.den
ErrAtThreshold(e) == 100 * e.num = e.den

\* two candidate pairs that are the same fraction (their computed errors are
\* then the same floating-point number)
SameFraction(p, q) == p[1] * q[2] = q[1] * p[2]

\* mutant: a later candidate replaces the best one on equal error (<= for <)
RatioTakes_OrEqual(best, cand, bias) ==
    best.none \/ ErrLess(cand.err, best.err) \/ ErrEqual(cand.err, best.err)

\* "if error < best_error".  The errors are floating-point sums: when two
\* different fractions, one below and one above the true share, have exactly
\* equal errors, the rounding of the sums decides which is the lower; bias
\* names the side whose computed error is the lower one
RatioTakes(best, cand, bias) ==
    \/ best.none
    \/ ErrLess(cand.err, best.err)
    \/ /\ ErrEqual(cand.err, best.err)
       /\ ~SameFraction(cand.pair, best.pair)
       /\ cand.side = bias

\* "if error < 0.01": the outcomes (both when the exact error is 0.01)
RatioStops(err) ==
    IF ErrBelowThreshold(err) THEN {TRUE}
    ELSE IF ErrAtThreshold(err) THEN {TRUE, FALSE}
    ELSE {FALSE}

\* the loop "for denominator in range(1, 11)" from one denominator on: the
\* pairs it can end with
RECURSIVE RatioSearch(_, _, _, _, _)
RatioSearch(w, m, denominator, best, bias) ==
    IF denominator > MAX_DENOMINATOR THEN {best.pair}
    ELSE LET wn == WomenNumerator(w, m, denominator)
             mn == MenNumerator(w, m, denominator)
             cand == [none |-> FALSE, pair |-> <<wn, mn>>,
                      err |-> RatioError(w, m, wn, mn),
                      side |-> IF wn * (w + m) < w * (wn + mn) THEN "low" ELSE "high"]
         IN  IF wn = 0 \/ mn = 0 THEN RatioSearch(w, m, denominator + 1, best, bias)
             ELSE IF RatioTakes(best, cand, bias)
             THEN UNION {IF stop THEN {cand.pair}
                         ELSE RatioSearch(w, m, denominator + 1, cand, bias) :
                         stop \in RatioStops(cand.err)}
             ELSE RatioSearch(w, m, denominator + 1, best, bias)

\* f"{women_numerator}:{men_numerator}"
RatioText(pair) == <<ToString(pair[1]), ":", ToString(pair[2])>>

\* best_ratio = "1:1", best_error = float('inf')
DEFAULT_BEST ==
    [none |-> TRUE, pair |-> <<1, 1>>, err |-> [num |-> 0, den |-> 1], side |-> "high"]

\* mutant: the search entered whenever the women total is positive
RatioSimple_WomenOnly(w, m) ==
    IF w > 0
    THEN {RatioText(pr) :
            pr \in UNION {RatioSearch(w, m, 1, DEFAULT_BEST, bias) : bias \in {"low", "high"}}}
    ELSE {<<"0", ":", "0">>}

\* ratio_simple: the texts the search can return for the two totals
RatioSimple(w, m) ==
    IF w > 0 /\ m > 0
    THEN {RatioText(pr) :
            pr \in UNION {RatioSearch(w, m, 1, DEFAULT_BEST, bias) : bias \in {"low", "high"}}}
    ELSE {<<"0", ":", "0">>}

GENDER_DEFAULT ==
    ("women_pct" :> 0) @@ ("men_pct" :> 0) @@ ("ratio_simple" :> <<"0", ":", "0">>)

\* calculate_gender_distribution: the dictionaries the call can return
calculate_gender_distribution(d, year) ==
    LET yearly_data == prepare_yearly_gender_data(d)
        filtered ==
            IF year # NoneArg
            THEN SelectSeq(yearly_data.rows, LAMBDA r : r[COL_AR] = Str(AsStr(year)))
            ELSE yearly_data.rows
        women_total == GenderTotal(filtered, <<"kvinnor">>)
        men_total == GenderTotal(filtered, <<"män">>)
        all_students == women_total + men_total
    IN  IF IsEmpty(yearly_data) THEN {GENDER_DEFAULT}
        ELSE IF filtered = <<>> THEN {GENDER_DEFAULT}
        ELSE {("women_pct" :> IF all_students > 0
                               THEN RoundHalfEven10(women_total, all_students) ELSE 0)
              @@ ("men_pct" :> IF all_students > 0
                                THEN RoundHalfEven10(men_total, all_students) ELSE 0)
              @@ ("women_count" :> women_total)
              @@ ("men_count" :> men_total)
              @@ ("ratio_simple" :> rs) : rs \in RatioSimple(women_total, men_total)}

(***************************************************************************)
(* Cohort / growth analytics: get_available_years and                      *)
(* calculate_year_growth.                                                  *)
(***************************************************************************)
\* the number a word of digits stands for, -1 for any other word of the
\* cohort columns
YearNumber(w) ==
    CASE w = "2020" -> 2020 [] w = "2021" -> 2021
      [] w = "2022" -> 2022 [] w = "2023" -> 2023
      [] OTHER -> -1

\* str(col).isdigit()
IsDigitName(c) == c # <<>> /\ \A i \in DOMAIN c : YearNumber(c[i]) >= 0

\* sorted(...) of year names: four-digit names sort as their numbers do
RECURSIVE SortYears(_)
SortYears(S) ==
    IF S = {} THEN <<>>
    ELSE LET y == CHOOSE x \in S : \A z \in S : YearNumber(x[1]) <= YearNumber(z[1])
         IN  <<y>> \o SortYears(S \ {y})

\* get_available_years: the digit-named columns after the third, ascending
get_available_years(d) ==
    IF IsEmpty(d) \/ Len(d.cols) < 4 THEN <<>>
    ELSE SortYears({d.cols[i] : i \in {j \in DOMAIN d.cols : j > 3 /\ IsDigitName(d.cols[j])}})

\* round(100 * n / d, 1) in tenths, n of either sign, d > 0: the nearest tenth;
\* an exact tie falls to either side with the floating-point value of the
\* quotient
RoundTenths(n, d) ==
    LET f == (1000 * n) \div d
        r == 1000 * n - f * d
    IN  IF 2 * r < d THEN {f} ELSE IF 2 * r > d THEN {f + 1} ELSE {f, f + 1}

\* str() of a float with one decimal, given in tenths: "33.3", "-50.0"
TenthsText(t) ==
    (IF t < 0 THEN <<"-">> ELSE <<>>)
        \o <<ToString(Abs(t) \div 10), ".", ToString(Abs(t) % 10)>>

\* the dictionary of a base year; the two base-year returns differ in one text
BaseYearState(pct_display) ==
    ("growth_pct" :> 0) @@ ("growth_count" :> 0) @@ ("is_increase" :> FALSE)
    @@ ("is_first_year" :> TRUE) @@ ("growth_pct_display" :> pct_display)
    @@ ("growth_count_display" :> <<"Första året i datasetet">>)
    @@ ("growth_class" :> <<"neutral-value">>)

\* the dictionary returned without totals: unknown year, no totals rows, error
GROWTH_ZERO ==
    ("growth_pct" :> 0) @@ ("growth_count" :> 0) @@ ("is_increase" :> FALSE)
    @@ ("is_first_year" :> FALSE) @@ ("growth_pct_display" :> <<"**", "0", "%**">>)
    @@ ("growth_count_display" :> <<"0", " studenter">>)
    @@ ("growth_class" :> <<"neutral-value">>)

\* the sum of antal over the totalt rows of one year
YearTotal(rows, year_str) ==
    LET mine == SelectSeq(rows, LAMBDA r : r[COL_AR] = Str(year_str)
                                           /\ Lower(r[COL_KON]) = <<"totalt">>)
    IN  SumSeq([i \in DOMAIN mine |-> mine[i][COL_ANTAL].n])

\* previous_year_str = available_years[year_idx - 1]
PreviousYear(available_years, year_idx) == available_years[year_idx - 1]

\* mutant: only the first position counts as base year, also with one year
IsBaseYear_IndexOnly(available_years, current_year_str) ==
    available_years # <<>> /\ available_years[1] = current_year_str

\* the two base-year returns: fewer than 2 years, or the year at index 0
IsBaseYear(available_years, current_year_str) ==
    \/ Len(available_years) < 2
    \/ available_years[1] = current_year_str

\* the dictionary of a year with a preceding year and totals rows
GrowthResult(current_total, previous_total, previous_year_str) ==
    IF previous_total > 0
    THEN LET growth_count == current_total - previous_total
             is_increase == growth_count > 0
             sign == IF is_increase THEN <<"+">> ELSE <<>>
         IN  {("growth_pct" :> pct) @@ ("growth_count" :> growth_count)
              @@ ("is_increase" :> is_increase) @@ ("is_first_year" :> FALSE)
              @@ ("previous_year" :> previous_year_str)
              @@ ("previous_total" :> previous_total)
              @@ ("current_total" :> current_total)
              @@ ("growth_pct_display" :> <<"**">> \o sign \o TenthsText(pct) \o <<"%**">>)
              @@ ("growth_count_display" :>
                      sign \o <<ToString(growth_count), " studenter">>)
              @@ ("growth_class" :> IF is_increase THEN <<"positive-value">>
                                                   ELSE <<"negative-value">>) :
                 pct \in RoundTenths(growth_count, previous_total)}
    ELSE {("growth_pct" :> 0) @@ ("growth_count" :> 0)
          @@ ("is_increase" :> FALSE) @@ ("is_first_year" :> FALSE)
          @@ ("previous_year" :> previous_year_str)
          @@ ("previous_total" :> previous_total)
          @@ ("current_total" :> current_total)
          @@ ("growth_pct_display" :> <<"**", "0", "%**">>)
          @@ ("growth_count_display" :> <<"0", " studenter">>)
          @@ ("growth_class" :> <<"neutral-value">>)}

\* calculate_year_growth: the dictionaries the call can return
calculate_year_growth(d, current_year) ==
    LET current_year_str == AsStr(current_year)
        available_years == get_available_years(d)
        year_idx == CHOOSE i \in DOMAIN available_years :
                        available_years[i] = current_year_str
        yearly_data == prepare_yearly_gender_data(d)
    IN  IF IsBaseYear(available_years, current_year_str)
        THEN {BaseYearState(IF Len(available_years) < 2 THEN <<"**", "Basår", "**">>
                            ELSE <<"**", "0", "% (basår)**">>)}
        ELSE IF current_year_str \notin Range(available_years) THEN {GROWTH_ZERO}
        ELSE IF IsEmpty(yearly_data) THEN {GROWTH_ZERO}
        ELSE LET previous_year_str == PreviousYear(available_years, year_idx)
             IN  GrowthResult(YearTotal(yearly_data.rows, current_year_str),
                              YearTotal(yearly_data.rows, previous_year_str),
                              previous_year_str)

(***************************************************************************)
(* National figures and the county view: compute_national_stats and the    *)
(* figures of compute_county_view (its charts are drawings of the summary  *)
(* and carry no figure of their own).                                      *)
(***************************************************************************)
\* mutant: no seats requested read as everything granted (100.0)
PlacesRate_FullWhenNone(approved_places, requested_places) ==
    IF requested_places > 0 THEN RoundTenths(approved_places, requested_places)
    ELSE {1000}

\* (approved_places / requested_places * 100) if requested_places > 0 else 0,
\* as the tenths that f"{...:.1f}" prints
PlacesRate(approved_places, requested_places) ==
    IF requested_places > 0 THEN RoundTenths(approved_places, requested_places)
    ELSE {0}

\* f"{rate:.1f}%" of a rate in tenths
PercentText(t) == TenthsText(t) \o <<"%">>

\* compute_national_stats: the dictionaries the call can return
compute_national_stats(d) ==
    IF COL_BESLUT \notin Columns(d) THEN {("raised" :> "KeyError")}
    ELSE LET total == Len(d.rows)
             approved == Len(SelectSeq(d.rows, IsApproved))
             rates == IF total # 0
                      THEN {PercentText(t) : t \in RoundTenths(approved, total)}
                      ELSE {<<"0", "%">>}
             requested_places == _sum_col_numeric(d, COL_TOTAL_SOKTA)
             approved_places == _sum_col_numeric(d, COL_TOTAL_BEVILJADE_PLATSER)
         IN  {("national_total_courses" :> total)
              @@ ("national_approved_courses" :> approved)
              @@ ("national_approval_rate_str" :> rate)
              @@ ("national_requested_places" :> requested_places)
              @@ ("national_approved_places" :> approved_places)
              @@ ("national_places_approval_rate_str" :> PercentText(places_rate)) :
                 rate \in rates,
                 places_rate \in PlacesRate(approved_places, requested_places)}

\* the dictionary of compute_county_view for one result of get_statistics
CountyView(df_selected, g, places_approval_rate) ==
    ("df_selected_county" :> df_selected)
    @@ ("summary" :> g.summary)
    @@ ("stats" :> g.stats)
    @@ ("total_courses" :> g.stats["Ansökta Kurser"])
    @@ ("approved_courses" :> g.stats["Beviljade"])
    @@ ("approval_rate_str" :> PercentText(g.stats["Beviljandegrad (%)"]))
    @@ ("requested_places" :> g.stats["Ansökta platser"])
    @@ ("approved_places" :> g.stats["Beviljade platser"])
    @@ ("places_approval_rate_str" :> PercentText(places_approval_rate))

\* compute_county_view: the dictionaries the call can return, without the two
\* chart entries
compute_county_view(d, county) ==
    IF COL_LAN \notin Columns(d) THEN {("raised" :> "KeyError")}
    ELSE LET county_norm == Strip(AsStr(county))
             df_selected ==
                 [cols |-> d.cols,
                  rows |-> SelectSeq(d.rows,
                               LAMBDA r : Strip(AsStr(r[COL_LAN])) = county_norm)]
         IN  UNION {IF g.raised # "" THEN {("raised" :> g.raised)}
                    ELSE {CountyView(df_selected, g, p) :
                            p \in PlacesRate(g.stats["Beviljade platser"],
                                             g.stats["Ansökta platser"])} :
                        g \in get_statistics(df_selected, NoneArg, Str(county_norm))}

(***************************************************************************)
(* The provider view: the figures of compute_provider_view, looked up in   *)
(* the summary table of summarize_providers (its two charts are drawings   *)
(* and carry no figure of their own).                                      *)
(***************************************************************************)
\* f"{n:,}": the digits in groups of three (n < 1,000,000)
ThousandsText(n) ==
    IF n < 1000 THEN <<ToString(n)>>
    ELSE <<ToString(n \div 1000), ",",
           ToString((n % 1000) \div 100), ToString((n % 100) \div 10), ToString(n % 10)>>

\* f"{a:,} av {b:,}"
OfText(a, b) == ThousandsText(a) \o <<" av ">> \o ThousandsText(b)

\* df_providers[df_providers["Anordnare namn"].astype(str).str.strip() == provider_norm]
ProviderRow(df_providers, provider_norm) ==
    IF provider_norm = <<>> THEN <<>>
    ELSE SelectSeq(df_providers,
                   LAMBDA r : Strip(AsStr(r[OUT_PROVIDER])) = provider_norm)

\* the dictionary returned when no row is found
ProviderPlaceholder(total_providers) ==
    ("provider_rank_places" :> 0)
    @@ ("provider_rank_places_summary_str" :> OfText(0, total_providers))
    @@ ("provider_places_summary_str" :> <<"0", " av ", "0">>)
    @@ ("provider_places_approval_rate_str" :> <<"0", ".", "0", "%">>)
    @@ ("provider_courses_summary_str" :> <<"0", " av ", "0">>)
    @@ ("provider_courses_approval_rate_str" :> <<"0", ".", "0", "%">>)

\* the dictionary of a found row r; int() of a missing value raises ValueError
ProviderFound(r, total_providers) ==
    IF \E c \in {OUT_BEVILJADE_PLATSER, OUT_SOKTA_PLATSER, OUT_RATE_PLATSER,
                  OUT_BEVILJADE_KURSER, OUT_SOKTA_KURSER, OUT_RATE_KURSER} : ~IsNum(r[c])
    THEN ("raised" :> "ValueError")
    ELSE ("provider_rank_places" :> r[OUT_RANK_PLATSER])
         @@ ("provider_rank_places_summary_str" :>
                 OfText(r[OUT_RANK_PLATSER], total_providers))
         @@ ("provider_rank_courses" :> r[OUT_RANK_KURSER])
         @@ ("provider_rank_courses_summary_str" :>
                 OfText(r[OUT_RANK_KURSER], total_providers))
         @@ ("provider_places_summary_str" :>
                 OfText(r[OUT_BEVILJADE_PLATSER].n, r[OUT_SOKTA_PLATSER].n))
         @@ ("provider_places_approval_rate_str" :> PercentText(r[OUT_RATE_PLATSER].n))
         @@ ("provider_courses_summary_str" :>
                 OfText(r[OUT_BEVILJADE_KURSER].n, r[OUT_SOKTA_KURSER].n))
         @@ ("provider_courses_approval_rate_str" :> PercentText(r[OUT_RATE_KURSER].n))

\* provider_education_area_chart(df, provider): "" when it returns a figure,
\* else the error it raises.  Without a row of the provider it returns the
\* empty figure; with one it groups by 'Utbildningsområde' and selects on
\* 'Beslut'
provider_education_area_chart(d, provider) ==
    IF COL_ANORDNARE \notin Columns(d) THEN "KeyError"
    ELSE IF SelectSeq(d.rows,
                      LAMBDA r : Strip(AsStr(r[COL_ANORDNARE])) = Strip(provider)) = <<>>
         THEN ""
    ELSE IF COL_EDUCATION_AREA \notin Columns(d) THEN "KeyError"
    ELSE IF COL_BESLUT \notin Columns(d) THEN "KeyError"
    ELSE ""

\* mutant: the row.empty test missing: row.iloc[0] of no row raises IndexError
compute_provider_view_NoEmptyTest(d, df_providers, provider) ==
    LET provider_norm == Strip(AsStr(provider))
        row == ProviderRow(df_providers, provider_norm)
    IN  IF row = <<>> THEN ("raised" :> "IndexError")
        ELSE ProviderFound(row[1], Len(df_providers))

\* compute_provider_view: the dictionary the call returns, without the two
\* chart entries, or the error raised while it is built (the figures are
\* converted before the charts are drawn; credits_histogram returns a figure
\* for every record set without a credits column)
compute_provider_view(d, df_providers, provider) ==
    LET provider_norm == Strip(AsStr(provider))
        row == ProviderRow(df_providers, provider_norm)
        chart == provider_education_area_chart(d, provider_norm)
    IN  IF row = <<>>
        THEN IF chart # "" THEN ("raised" :> chart)
             ELSE ProviderPlaceholder(Len(df_providers))
        ELSE IF COL_ANORDNARE \notin Columns(d) THEN ("raised" :> "KeyError")
        ELSE IF "raised" \in DOMAIN ProviderFound(row[1], Len(df_providers))
             THEN ProviderFound(row[1], Len(df_providers))
        ELSE IF chart # "" THEN ("raised" :> chart)
        ELSE ProviderFound(row[1], Len(df_providers))

(***************************************************************************)
(* Enrichment: enrich_base_data.                                           *)
(***************************************************************************)
KEY_COL == <<"Diarienummer">>
SOKT_PREFIX == <<"Sökt antal platser">>

\* the applications sheet cannot be read: _read_data_or_exit exits
Unreadable == [t |-> "unreadable"]

\* str.casefold() of one word of a column name
CaseFoldWord(w) ==
    CASE w = "Sökt antal platser" -> "sökt antal platser"
      [] w = "SÖKT ANTAL PLATSER" -> "sökt antal platser"
      [] w = "Diarienummer" -> "diarienummer"
      [] w = "Utbildningsnamn" -> "utbildningsnamn"
      [] w = "Anordnare namn" -> "anordnare namn"
      [] w = "Totalt antal sökta platser" -> "totalt antal sökta platser"
      [] OTHER -> w

\* str.casefold()
CaseFold(s) == [i \in DOMAIN s |-> CaseFoldWord(s[i])]

\* d[key_col] = d[key_col].astype(str).str.strip() on a copy of d
NormalizeKey(d, key_col) ==
    [d EXCEPT !.rows =
        [i \in DOMAIN d.rows |->
            [d.rows[i] EXCEPT ![key_col] = Str(Strip(AsStr(@)))]]]

\* wanted: the key column, then the columns of the sheet whose stripped,
\* case-folded name starts with the case-folded prefix
wanted(sheet, key_col, prefix) ==
    <<key_col>> \o
    SelectSeq(sheet.cols,
              LAMBDA c : c # key_col
                         /\ StartsWith(CaseFold(Strip(c)), CaseFold(prefix)))

\* the try around pd.to_numeric(apps_sel[c]): a column is converted only when
\* every cell of it converts
ConvertsWhole(sheet, c) == \A i \in DOMAIN sheet.rows : CanBeNumeric(sheet.rows[i][c])

\* numeric_block.sum(axis=1, min_count=1): NaN when no cell of the row is a number
SumMinCount1(cells) ==
    IF \A j \in DOMAIN cells : IsNaN(cells[j]) THEN NaN
    ELSE Num(SumSeq([j \in DOMAIN cells |-> IF IsNum(cells[j]) THEN cells[j].n ELSE 0]))

\* one row's COL_TOTAL_SOKTA: the coerced cells summed, NaN filled with 0, as
\* int (the numbers of the model are whole, so the truncation keeps them)
RowTotal(r, sum_source_cols) ==
    LET numeric_block == [j \in DOMAIN sum_source_cols |-> ToNumericCoerce(r[sum_source_cols[j]])]
        total == SumMinCount1(numeric_block)
    IN  IF IsNaN(total) THEN Num(0) ELSE total

\* apps_sel before de-duplication: the wanted columns, numeric where the whole
\* column converts, and the derived total as last column
apps_sel(sheet, key_col, prefix) ==
    LET w == wanted(sheet, key_col, prefix)
        keyed == NormalizeKey(sheet, key_col)
        sum_source_cols == Tail(w)
        Converted(i, c) ==
            IF c # key_col /\ ConvertsWhole(sheet, c)
            THEN ToNumeric(keyed.rows[i][c]) ELSE keyed.rows[i][c]
        Selected(i) == [c \in Range(w) |-> Converted(i, c)]
    IN  [cols |-> w \o <<COL_TOTAL_SOKTA>>,
         rows |-> [i \in DOMAIN sheet.rows |->
                      [c \in Range(w) \cup {COL_TOTAL_SOKTA} |->
                          IF c = COL_TOTAL_SOKTA
                          THEN RowTotal(Selected(i), sum_source_cols)
                          ELSE Selected(i)[c]]]]

\* mutant: no de-duplication of the selected sheet rows
drop_duplicates_None(d, key_col) == d

\* drop_duplicates(subset=[key_col], keep="first") on the rows
RECURSIVE KeepFirst(_, _)
KeepFirst(rows, key_col) ==
    IF rows = <<>> THEN <<>>
    ELSE <<Head(rows)>> \o
         KeepFirst(SelectSeq(Tail(rows), LAMBDA r : r[key_col] # Head(rows)[key_col]),
                   key_col)

\* mutant: the first row of a key kept instead of the last
drop_duplicates_KeepFirst(d, key_col) == [d EXCEPT !.rows = KeepFirst(d.rows, key_col)]

\* drop_duplicates(subset=[key_col], keep="last") on the rows
RECURSIVE KeepLast(_, _)
KeepLast(rows, key_col) ==
    IF rows = <<>> THEN <<>>
    ELSE IF \E j \in DOMAIN Tail(rows) : Tail(rows)[j][key_col] = Head(rows)[key_col]
         THEN KeepLast(Tail(rows), key_col)
         ELSE <<Head(rows)>> \o KeepLast(Tail(rows), key_col)

drop_duplicates(d, key_col) == [d EXCEPT !.rows = KeepLast(d.rows, key_col)]

\* DataFrame.rename(columns=ren), ren giving every column its (new) name
Rename(d, ren) ==
    [cols |-> [i \in DOMAIN d.cols |-> ren[d.cols[i]]],
     rows |-> [i \in DOMAIN d.rows |->
                  [n \in {ren[c] : c \in Columns(d)} |->
                      d.rows[i][CHOOSE c \in Columns(d) : ren[c] = n]]]]

\* rename_map applied: with a non-empty suffix every incoming column that the
\* base already has gets the suffix appended
rename_map(sel, base, key_col, suffix) ==
    [c \in Columns(sel) |->
        IF suffix # <<>> /\ c # key_col /\ c \in Columns(base) THEN c \o suffix ELSE c]

MERGE_SUFFIX_LEFT == <<"_x">>
MERGE_SUFFIX_RIGHT == <<"_y">>

\* base.merge(right, on=key_col, how="left"): the base rows in order, each with
\* the cells of every right row of its key (NaN cells without one); a column on
\* both sides is renamed with _x on the left and _y on the right.  The
\* validate="m:1" attempt and its fallback give this same table.
merge(base, right, key_col) ==
    LET overlap == (Columns(base) \cap Columns(right)) \ {key_col}
        L == Rename(base, [c \in Columns(base) |->
                              IF c \in overlap THEN c \o MERGE_SUFFIX_LEFT ELSE c])
        R == Rename(right, [c \in Columns(right) |->
                              IF c \in overlap THEN c \o MERGE_SUFFIX_RIGHT ELSE c])
        right_cols == SelectSeq(R.cols, LAMBDA c : c # key_col)
        Joined(l, r) == [c \in Columns(L) \cup Range(right_cols) |->
                            IF c \in Columns(L) THEN l[c] ELSE r[c]]
        Unmatched(l) == [c \in Columns(L) \cup Range(right_cols) |->
                            IF c \in Columns(L) THEN l[c] ELSE NaN]
        Matches(l) == SelectSeq(R.rows, LAMBDA r : r[key_col] = l[key_col])
        RowsOf(l) == IF Matches(l) = <<>> THEN <<Unmatched(l)>>
                     ELSE [j \in DOMAIN Matches(l) |-> Joined(l, Matches(l)[j])]
    IN  [cols |-> L.cols \o right_cols,
         rows |-> Flatten([i \in DOMAIN L.rows |-> RowsOf(L.rows[i])])]

\* mutant: a missing key column is patched over instead of skipping: the base
\* comes back with a derived total of 0 on every row
enrich_base_data_TotalOnSkip(df_base, sheet, key_col, prefix, suffix) ==
    LET Patched == [cols |-> df_base.cols \o <<COL_TOTAL_SOKTA>>,
                    rows |-> [i \in DOMAIN df_base.rows |->
                                 df_base.rows[i] @@ (COL_TOTAL_SOKTA :> Num(0))]]
    IN  IF df_base = NoneArg THEN df_base
        ELSE IF IsEmpty(df_base) THEN df_base
        ELSE IF sheet = Unreadable THEN df_base
        ELSE IF key_col \notin Columns(df_base) THEN Patched
        ELSE IF key_col \notin Columns(sheet) THEN Patched
        ELSE IF Len(wanted(sheet, key_col, prefix)) = 1 THEN df_base
        ELSE LET base == NormalizeKey(df_base, key_col)
                 sel == drop_duplicates(apps_sel(sheet, key_col, prefix), key_col)
             IN  merge(base, Rename(sel, rename_map(sel, base, key_col, suffix)), key_col)

\* enrich_base_data(df_base, key_col, prefix, suffix) with the applications
\* sheet read from disk: the frame it returns
enrich_base_data(df_base, sheet, key_col, prefix, suffix) ==
    IF df_base = NoneArg THEN df_base
    ELSE IF IsEmpty(df_base) THEN df_base
    ELSE IF sheet = Unreadable THEN df_base
    ELSE IF key_col \notin Columns(df_base) THEN df_base
    ELSE IF key_col \notin Columns(sheet) THEN df_base
    ELSE IF Len(wanted(sheet, key_col, prefix)) = 1 THEN df_base
    ELSE LET base == NormalizeKey(df_base, key_col)
             sel == drop_duplicates(apps_sel(sheet, key_col, prefix), key_col)
         IN  merge(base, Rename(sel, rename_map(sel, base, key_col, suffix)), key_col)

(***************************************************************************)
(* Region matching: match_region_codes over difflib.get_close_matches.     *)
(***************************************************************************)
\* the matching blocks of a and b: <<i, j, k>> with a[i .. i+k-1] = b[j .. j+k-1]
MatchingBlocks(a, b) ==
    {blk \in (1..Len(a)) \X (1..Len(b)) \X (1..Len(a)) :
        /\ blk[1] + blk[3] - 1 <= Len(a)
        /\ blk[2] + blk[3] - 1 <= Len(b)
        /\ SubSeq(a, blk[1], blk[1] + blk[3] - 1) = SubSeq(b, blk[2], blk[2] + blk[3] - 1)}

\* SequenceMatcher.find_longest_match: a longest block, of those the earliest
\* in a, of those the earliest in b
find_longest_match(a, b) ==
    CHOOSE m \in MatchingBlocks(a, b) :
        \A o \in MatchingBlocks(a, b) :
            \/ m[3] > o[3]
            \/ m[3] = o[3] /\ m[1] < o[1]
            \/ m[3] = o[3] /\ m[1] = o[1] /\ m[2] <= o[2]

\* the total size of SequenceMatcher.get_matching_blocks: the longest block,
\* then the same on the pieces to its left and to its right
RECURSIVE MatchCount(_, _)
MatchCount(a, b) ==
    IF MatchingBlocks(a, b) = {} THEN 0
    ELSE LET m == find_longest_match(a, b)
         IN  m[3]
             + MatchCount(SubSeq(a, 1, m[1] - 1), SubSeq(b, 1, m[2] - 1))
             + MatchCount(SubSeq(a, m[1] + m[3], Len(a)), SubSeq(b, m[2] + m[3], Len(b)))

\* SequenceMatcher.ratio() = 2.0 * M / T (1.0 for two empty texts), as the
\* fraction [num, den]; get_close_matches sets seq2 = word, seq1 = x
Ratio(word, x) ==
    IF Len(x) + Len(word) = 0 THEN [num |-> 1, den |-> 1]
    ELSE [num |-> 2 * MatchCount(x, word), den |-> Len(x) + Len(word)]

\* ratio >= cutoff, cutoff = 0.6
AtLeastCutoff(r) == 10 * r.num >= 6 * r.den

\* mutant: no cutoff, every key is close enough
get_close_matches_NoCutoff(word, possibilities) ==
    IF possibilities = {} THEN <<>>
    ELSE << CHOOSE x \in possibilities :
               \A y \in possibilities \ {x} :
                   \/ Ratio(word, x).num * Ratio(word, y).den
                          > Ratio(word, y).num * Ratio(word, x).den
                   \/ /\ Ratio(word, x).num * Ratio(word, y).den
                          = Ratio(word, y).num * Ratio(word, x).den
                      /\ TextLess(y, x) >>

\* get_close_matches(word, possibilities, n=1): the key scoring at least the
\* cutoff with the largest (score, key), or no key
get_close_matches(word, possibilities) ==
    LET close == {x \in possibilities : AtLeastCutoff(Ratio(word, x))}
    IN  IF close = {} THEN <<>>
        ELSE << CHOOSE x \in close :
                   \A y \in close \ {x} :
                       \/ Ratio(word, x).num * Ratio(word, y).den
                              > Ratio(word, y).num * Ratio(word, x).den
                       \/ /\ Ratio(word, x).num * Ratio(word, y).den
                              = Ratio(word, y).num * Ratio(word, x).den
                          /\ TextLess(y, x) >>

\* match_region_codes(regions, code_map): code_map is a function from key
\* texts to codes
match_region_codes(regions, code_map) ==
    [i \in DOMAIN regions |->
        LET hit == get_close_matches(regions[i], DOMAIN code_map)
        IN  IF hit # <<>> THEN code_map[hit[1]] ELSE NoneArg]

(***************************************************************************)
(* The state before any call.                                              *)
(***************************************************************************)
NoCall == [op |-> "none"]
NoRet == [raised |-> "none"]
NoState == [page |-> "none"]

(***************************************************************************)
(* Specification StatsSpec: get_statistics over bounded record sets.       *)
(***************************************************************************)
STATS_COLS == <<COL_LAN, COL_BESLUT, COL_EDUCATION_AREA>>

LanValues == {Str(<<"X">>), Str(<<"Y", " ">>)}
BeslutValues == {Str(BESLUT_BEVILJAD), Str(BESLUT_AVSLAG), Str(<<"Återtagen">>), NaN}
AreaValues == {Str(<<"A">>), Str(<<"B">>), NaN}

\* approved and rejected applications of every area, and an application of
\* every decision (another one and a missing one included) of area A
StatsRows ==
    {(COL_LAN :> l) @@ (COL_BESLUT :> b) @@ (COL_EDUCATION_AREA :> a) :
        l \in LanValues, b \in {Str(BESLUT_BEVILJAD), Str(BESLUT_AVSLAG)}, a \in AreaValues}
    \cup {(COL_LAN :> l) @@ (COL_BESLUT :> b) @@ (COL_EDUCATION_AREA :> Str(<<"A">>)) :
              l \in LanValues, b \in BeslutValues}

\* a record set that lacks the required column Utbildningsområde
NoAreaFrames ==
    {[cols |-> <<COL_LAN, COL_BESLUT>>,
      rows |-> <<(COL_LAN :> l) @@ (COL_BESLUT :> b)>>] :
        l \in LanValues, b \in BeslutValues}

CountyArgs == {NoneArg, Str(<<" ", "X">>), Str(<<"Y">>), Str(<<"Z">>)}
LabelArgs == {NoneArg}

\* a record set of at most MaxRows rows, or one that lacks a required column
StatsInit ==
    /\ \/ \E k \in 0..MaxRows : \E rs \in [1..k -> StatsRows] :
              df = [cols |-> STATS_COLS, rows |-> rs]
       \/ df \in NoAreaFrames
    /\ apps = Unreadable
    /\ call = NoCall
    /\ ret = NoRet
    /\ state = NoState

GetStatistics ==
    \E county \in CountyArgs, label \in LabelArgs :
        \E r \in get_statistics(df, county, label) :
            /\ call' = [op |-> "get_statistics", county |-> county, label |-> label]
            /\ ret' = r
            /\ UNCHANGED <<df, apps, state>>

StatsNext == GetStatistics

StatsSpec == StatsInit /\ [][StatsNext]_vars

\* get_statistics has returned (it did not raise)
StatsReturned == call.op = "get_statistics" /\ ret.raised = ""

\* the sum of "Ansökta utbildningar" over the returned breakdown
BreakdownRequestedSum ==
    SumSeq([i \in DOMAIN ret.summary.rows |-> ret.summary.rows[i][SUMMARY_REQUESTED]])

\* the indices of the caller's rows that the call's scope selects, stated from
\* the contract: a row is in scope when there is no county filter, or its Län
\* equals the county after trimming both
InScope(i) ==
    \/ call.county = NoneArg
    \/ Strip(AsStr(df.rows[i][COL_LAN])) = Strip(AsStr(call.county))

ScopeIndices == {i \in DOMAIN df.rows : InScope(i)}

(***************************************************************************)
(* C1: for every scope get_statistics returns an approval rate with        *)
(* 0.0 <= rate <= 100.0, and the rate is 0.0 when the scope has no rows.   *)
(***************************************************************************)
C1_ApprovalRateBounds ==
    StatsReturned =>
        /\ 0 <= ret.stats["Beviljandegrad (%)"]
        /\ ret.stats["Beviljandegrad (%)"] <= 1000
        /\ (ret.stats["Ansökta Kurser"] = 0 => ret.stats["Beviljandegrad (%)"] = 0)

\* a county filter that selects no row of a non-empty record set gave rate 0.0
C1_Witness ==
    /\ StatsReturned
    /\ Len(df.rows) = MaxRows
    /\ call.county # NoneArg
    /\ ret.stats["Ansökta Kurser"] = 0
    /\ ret.stats["Beviljandegrad (%)"] = 0

(***************************************************************************)
(* C7: the requested counts of the education-area breakdown sum to the     *)
(* scope total (every record is counted in exactly one area bucket).       *)
(***************************************************************************)
C7_BreakdownSumsToTotal ==
    StatsReturned => BreakdownRequestedSum = ret.stats["Ansökta Kurser"]

\* the education areas that have a record in the scope, and the scope's
\* records of an area
ScopeAreas ==
    {df.rows[i][COL_EDUCATION_AREA] :
        i \in {j \in ScopeIndices : IsStr(df.rows[j][COL_EDUCATION_AREA])}}

AreaIndices(a) == {i \in ScopeIndices : df.rows[i][COL_EDUCATION_AREA] = a}

(***************************************************************************)
(* C27: the breakdown has the four columns 'Utbildningsområde', 'Ansökta   *)
(* utbildningar', 'Beviljade utbildningar', 'Beviljandegrad' and exactly   *)
(* one row per education area with a record in the scope, carrying the     *)
(* area's record count and approved count; an area without an approved     *)
(* record appears with approved 0 and rate 0.0; the rows are ascending by  *)
(* requested count; an empty scope gives no row.                           *)
(***************************************************************************)
C27_BreakdownPerArea ==
    StatsReturned =>
        LET rows == ret.summary.rows
        IN  /\ ret.summary.cols =
                   << <<"Utbildningsområde">>, <<"Ansökta utbildningar">>,
                      <<"Beviljade utbildningar">>, <<"Beviljandegrad">> >>
            /\ ScopeIndices = {} => rows = <<>>
            /\ {rows[i][SUMMARY_AREA] : i \in DOMAIN rows} = ScopeAreas
            /\ Len(rows) = Cardinality(ScopeAreas)
            /\ \A i \in DOMAIN rows :
                   /\ rows[i][SUMMARY_REQUESTED] =
                          Cardinality(AreaIndices(rows[i][SUMMARY_AREA]))
                   /\ rows[i][SUMMARY_APPROVED] =
                          Cardinality({j \in AreaIndices(rows[i][SUMMARY_AREA]) :
                                          df.rows[j][COL_BESLUT] = Str(<<"Beviljad">>)})
                   /\ rows[i][SUMMARY_APPROVED] = 0 => rows[i][SUMMARY_RATE] = 0
            /\ \A i \in 1..(Len(rows) - 1) :
                   rows[i][SUMMARY_REQUESTED] <= rows[i + 1][SUMMARY_REQUESTED]

\* area B with one rejected record stands before area A with two records, one
\* of them approved
C27_Witness ==
    /\ StatsReturned
    /\ Len(ret.summary.rows) = 2
    /\ ret.summary.rows[1] =
           (SUMMARY_AREA :> Str(<<"B">>)) @@ (SUMMARY_REQUESTED :> 1)
           @@ (SUMMARY_APPROVED :> 0) @@ (SUMMARY_RATE :> 0)
    /\ ret.summary.rows[2] =
           (SUMMARY_AREA :> Str(<<"A">>)) @@ (SUMMARY_REQUESTED :> 2)
           @@ (SUMMARY_APPROVED :> 1) @@ (SUMMARY_RATE :> 500)

(***************************************************************************)
(* C8: total is the number of rows of the scope, approved the number whose *)
(* decision is 'Beviljad', rejected the number whose decision is 'Avslag'; *)
(* other and blank decisions count only toward total, so                   *)
(* approved + rejected <= total; Beviljad, Beviljad, Avslag give           *)
(* total 3, approved 2, rejected 1, rate 66.7.                             *)
(***************************************************************************)
C8_DecisionCounts ==
    StatsReturned =>
        LET decision(i) == df.rows[i][COL_BESLUT]
            total == ret.stats["Ansökta Kurser"]
            approved == ret.stats["Beviljade"]
            rejected == ret.stats["Avslag"]
        IN  /\ total = Cardinality(ScopeIndices)
            /\ approved =
                 Cardinality({i \in ScopeIndices : decision(i) = Str(<<"Beviljad">>)})
            /\ rejected =
                 Cardinality({i \in ScopeIndices : decision(i) = Str(<<"Avslag">>)})
            /\ approved + rejected <= total
            /\ (/\ Len(df.rows) = 3
                /\ ScopeIndices = {1, 2, 3}
                /\ decision(1) = Str(<<"Beviljad">>)
                /\ decision(2) = Str(<<"Beviljad">>)
                /\ decision(3) = Str(<<"Avslag">>))
               => /\ total = 3 /\ approved = 2 /\ rejected = 1
                  /\ ret.stats["Beviljandegrad (%)"] = 667

\* a scope with an approved, a rejected, an other and a blank-free mix:
\* some row counted only toward total
C8_Witness ==
    /\ StatsReturned
    /\ ret.stats["Beviljade"] >= 1
    /\ ret.stats["Avslag"] >= 1
    /\ ret.stats["Beviljade"] + ret.stats["Avslag"] < ret.stats["Ansökta Kurser"]

(***************************************************************************)
(* C16: get_statistics validates the required columns first: with one      *)
(* missing it raises ValueError to the caller and returns nothing, not     *)
(* even for a scope that would be empty; with all present it returns.      *)
(***************************************************************************)
C16_ValidatesBeforeComputing ==
    call.op = "get_statistics" =>
        IF REQUIRED_COLUMNS \subseteq Columns(df)
        THEN ret.raised = ""
        ELSE ret = [raised |-> "ValueError"]

\* a record set without Utbildningsområde, asked for a county none of its
\* records is in
C16_Witness ==
    /\ call.op = "get_statistics"
    /\ COL_EDUCATION_AREA \notin Columns(df)
    /\ call.county = Str(<<"Z">>)
    /\ ret = [raised |-> "ValueError"]

(***************************************************************************)
(* Specification ProvidersSpec: summarize_providers over bounded enriched  *)
(* record sets.                                                            *)
(***************************************************************************)
PROVIDER_COLS ==
    <<COL_ANORDNARE, COL_BESLUT, COL_TOTAL_BEVILJADE_PLATSER, COL_TOTAL_SOKTA>>

\* raw provider names; "a" and "a " are one provider once trimmed
ProviderNames == {Str(<<"a">>), Str(<<"a", " ">>), Str(<<"b">>), Str(<<"c">>)}

\* (decision, granted seats, requested seats) of one application: a rejected
\* one was granted nothing; the requested total may be 0 or missing
ApplicationKinds ==
    {<<Str(BESLUT_AVSLAG), Num(0), Num(0)>>,
     <<Str(BESLUT_AVSLAG), Num(0), Num(1)>>,
     <<Str(BESLUT_BEVILJAD), Num(0), Num(0)>>,
     <<Str(BESLUT_BEVILJAD), Num(1), Num(1)>>,
     <<Str(BESLUT_BEVILJAD), Num(2), Num(4)>>,
     <<Str(BESLUT_BEVILJAD), Num(1), NaN>>}

ProviderRows ==
    {(COL_ANORDNARE :> n) @@ (COL_BESLUT :> k[1])
        @@ (COL_TOTAL_BEVILJADE_PLATSER :> k[2]) @@ (COL_TOTAL_SOKTA :> k[3]) :
        n \in ProviderNames, k \in ApplicationKinds}

\* record sets of one application without any granted-seats column
NoGrantedFrames ==
    {[cols |-> <<COL_ANORDNARE, COL_BESLUT, COL_TOTAL_SOKTA>>,
      rows |-> << (COL_ANORDNARE :> n) @@ (COL_BESLUT :> k[1]) @@ (COL_TOTAL_SOKTA :> k[3]) >>] :
        n \in ProviderNames, k \in ApplicationKinds}

\* the year columns of a record set enriched without the derived total
SOKT_2025 == YEAR_COL_PREFIX \o <<"2025">>
SOKT_2026 == YEAR_COL_PREFIX \o <<"2026">>

\* the requested-seats columns a record set can carry: the total and the year
\* columns, the alternative total and a year column, the year columns alone,
\* none
SeatLayouts ==
    { <<COL_TOTAL_SOKTA, SOKT_2025, SOKT_2026>>,
      <<SOKTA_PLATSER_TOTALT, SOKT_2025>>,
      <<SOKT_2025, SOKT_2026>>,
      <<>> }

SEAT_BASE_COLS == <<COL_ANORDNARE, COL_BESLUT, COL_TOTAL_BEVILJADE_PLATSER>>

\* granted applications of one seat each, every requested-seats cell 1 or missing
SeatRows(layout) ==
    {((COL_ANORDNARE :> n) @@ (COL_BESLUT :> Str(BESLUT_BEVILJAD))
        @@ (COL_TOTAL_BEVILJADE_PLATSER :> Num(1))) @@ cells :
        n \in {Str(<<"a">>), Str(<<"b">>)},
        cells \in [Range(layout) -> {Num(1), NaN}]}

\* an enriched record set of at most MaxProviderRows rows, one without a
\* granted-seats column, or one of at most MaxSeatRows rows with another
\* layout of requested-seats columns
ProvidersInit ==
    /\ \/ \E k \in 0..MaxProviderRows : \E rs \in [1..k -> ProviderRows] :
              df = [cols |-> PROVIDER_COLS, rows |-> rs]
       \/ df \in NoGrantedFrames
       \/ \E layout \in SeatLayouts :
              \E k \in 1..MaxSeatRows : \E rs \in [1..k -> SeatRows(layout)] :
                  df = [cols |-> SEAT_BASE_COLS \o layout, rows |-> rs]
    /\ apps = Unreadable
    /\ call = NoCall
    /\ ret = NoRet
    /\ state = NoState

SummarizeProviders ==
    \E r \in summarize_providers(df, COL_ANORDNARE) :
        /\ call' = [op |-> "summarize_providers", provider_col |-> COL_ANORDNARE]
        /\ ret' = r
        /\ UNCHANGED <<df, apps, state>>

ProvidersNext == SummarizeProviders

ProvidersSpec == ProvidersInit /\ [][ProvidersNext]_vars

\* summarize_providers has returned its table
ProvidersReturned == call.op = "summarize_providers" /\ ret.raised = ""

\* the (summed granted seats, seats approval rate) tuple of an output row
SeatsTuple(row) == <<row[OUT_BEVILJADE_PLATSER], row[OUT_RATE_PLATSER]>>

(***************************************************************************)
(* C2: read in output order, 'Ranking beviljade platser' starts at 1 and   *)
(* each next rank is the previous one or the previous one plus 1.          *)
(***************************************************************************)
C2_DenseRankNoGaps ==
    ProvidersReturned =>
        LET o == ret.out
        IN  /\ (Len(o) >= 1 => o[1][OUT_RANK_PLATSER] = 1)
            /\ \A i \in 1..(Len(o) - 1) :
                   /\ o[i][OUT_RANK_PLATSER] <= o[i + 1][OUT_RANK_PLATSER]
                   /\ o[i + 1][OUT_RANK_PLATSER] - o[i][OUT_RANK_PLATSER] \in {0, 1}

\* three providers, two tied at rank 1 and the third at rank 2
C2_Witness ==
    /\ ProvidersReturned
    /\ Len(ret.out) = 3
    /\ ret.out[1][OUT_RANK_PLATSER] = 1
    /\ ret.out[2][OUT_RANK_PLATSER] = 1
    /\ ret.out[3][OUT_RANK_PLATSER] = 2

(***************************************************************************)
(* C3: two providers with identical (summed granted seats, seats approval  *)
(* rate) tuples get the same 'Ranking beviljade platser'; two providers    *)
(* with different tuples never share that rank.                            *)
(***************************************************************************)
C3_RankTiesExactlyOnEqualTuples ==
    ProvidersReturned =>
        \A i, j \in DOMAIN ret.out :
            (SeatsTuple(ret.out[i]) = SeatsTuple(ret.out[j]))
                <=> (ret.out[i][OUT_RANK_PLATSER] = ret.out[j][OUT_RANK_PLATSER])

\* two providers with one tuple, and a third with the same granted seats but
\* another rate
C3_Witness ==
    /\ ProvidersReturned
    /\ \E i, j, k \in DOMAIN ret.out :
          /\ i # j
          /\ SeatsTuple(ret.out[i]) = SeatsTuple(ret.out[j])
          /\ ret.out[k][OUT_BEVILJADE_PLATSER] = ret.out[i][OUT_BEVILJADE_PLATSER]
          /\ ret.out[k][OUT_RATE_PLATSER] # ret.out[i][OUT_RATE_PLATSER]
          /\ ret.out[k][OUT_RANK_PLATSER] # ret.out[i][OUT_RANK_PLATSER]

(***************************************************************************)
(* C4: granted seats is the primary ranking key: more summed granted seats *)
(* means a strictly smaller 'Ranking beviljade platser' whatever the       *)
(* rates; the rate orders only providers with equal granted seats          *)
(* (P1(2, 50.0), P2(2, 50.0), P3(1, 100.0) rank 1, 1, 2, the shape of the  *)
(* spec's P1(100, 50.0), P2(100, 50.0), P3(90, 80.0)).                     *)
(***************************************************************************)
C4_GrantedSeatsPrimaryKey ==
    ProvidersReturned =>
        \A i, j \in DOMAIN ret.out :
            LET a == ret.out[i]
                b == ret.out[j]
            IN  /\ a[OUT_BEVILJADE_PLATSER].n > b[OUT_BEVILJADE_PLATSER].n
                    => a[OUT_RANK_PLATSER] < b[OUT_RANK_PLATSER]
                /\ (/\ a[OUT_BEVILJADE_PLATSER] = b[OUT_BEVILJADE_PLATSER]
                    /\ a[OUT_RATE_PLATSER].n > b[OUT_RATE_PLATSER].n)
                    => a[OUT_RANK_PLATSER] < b[OUT_RANK_PLATSER]

\* P1(2, 50.0), P2(2, 50.0), P3(1, 100.0) ranked 1, 1, 2
C4_Witness ==
    /\ ProvidersReturned
    /\ Len(ret.out) = 3
    /\ \A i \in {1, 2} :
          /\ SeatsTuple(ret.out[i]) = <<Num(2), Num(500)>>
          /\ ret.out[i][OUT_RANK_PLATSER] = 1
    /\ SeatsTuple(ret.out[3]) = <<Num(1), Num(1000)>>
    /\ ret.out[3][OUT_RANK_PLATSER] = 2

(***************************************************************************)
(* C5: summarize_providers can return only one table for a record set:     *)
(* the rows are in strictly ascending order of ('Ranking beviljade         *)
(* platser', provider name), every trimmed provider name of the record set *)
(* occurs in exactly one row, so the sort key leaves no two rows unordered.*)
(***************************************************************************)
C5_OutputOrderDetermined ==
    ProvidersReturned =>
        LET o == ret.out
        IN  /\ \A i, j \in DOMAIN o :
                   i < j =>
                       \/ o[i][OUT_RANK_PLATSER] < o[j][OUT_RANK_PLATSER]
                       \/ /\ o[i][OUT_RANK_PLATSER] = o[j][OUT_RANK_PLATSER]
                          /\ TextLess(o[i][OUT_PROVIDER].s, o[j][OUT_PROVIDER].s)
            /\ \A r \in Range(df.rows) :
                   Cardinality({i \in DOMAIN o :
                       o[i][OUT_PROVIDER].s = Strip(r[COL_ANORDNARE].s)}) = 1
            /\ Cardinality(summarize_providers(df, COL_ANORDNARE)) = 1

\* rows of one provider written with and without a trailing space, and another
\* provider tied with it on the rank: the name alone orders the two rows
C5_Witness ==
    /\ ProvidersReturned
    /\ \E r1, r2 \in Range(df.rows) :
          /\ r1[COL_ANORDNARE] # r2[COL_ANORDNARE]
          /\ Strip(r1[COL_ANORDNARE].s) = Strip(r2[COL_ANORDNARE].s)
    /\ Len(ret.out) = 2
    /\ ret.out[1][OUT_RANK_PLATSER] = ret.out[2][OUT_RANK_PLATSER]

(***************************************************************************)
(* C10: a provider whose summed requested seats and summed granted seats   *)
(* are 0 gets 'Beviljandegrad (platser) %' = 0.0 (not null) and a rank in  *)
(* both rankings.                                                          *)
(***************************************************************************)
C10_ZeroRequestedRateZero ==
    ProvidersReturned =>
        \A i \in DOMAIN ret.out :
            (/\ ret.out[i][OUT_SOKTA_PLATSER] = Num(0)
             /\ ret.out[i][OUT_BEVILJADE_PLATSER] = Num(0))
            => /\ ret.out[i][OUT_RATE_PLATSER] = Num(0)
               /\ ret.out[i][OUT_RANK_PLATSER] \in 1..Len(ret.out)
               /\ ret.out[i][OUT_RANK_KURSER] \in 1..Len(ret.out)

\* a provider with 0 requested and 0 granted seats ranked below another provider
C10_Witness ==
    /\ ProvidersReturned
    /\ \E i \in DOMAIN ret.out :
          /\ ret.out[i][OUT_SOKTA_PLATSER] = Num(0)
          /\ ret.out[i][OUT_BEVILJADE_PLATSER] = Num(0)
          /\ ret.out[i][OUT_RATE_PLATSER] = Num(0)
          /\ ret.out[i][OUT_RANK_PLATSER] = 2

(***************************************************************************)
(* C17: when the record set has none of the known granted-seats columns,   *)
(* summarize_providers does not raise and gives every provider a           *)
(* granted-seats sum of 0.                                                 *)
(***************************************************************************)
C17_MissingGrantedDefaultsZero ==
    (/\ call.op = "summarize_providers"
     /\ {COL_ANORDNARE, COL_BESLUT} \subseteq Columns(df)
     /\ GrantedCol(df) = NoneArg)
    => /\ ret.raised = ""
       /\ \A i \in DOMAIN ret.out : ret.out[i][OUT_BEVILJADE_PLATSER] = Num(0)

(***************************************************************************)
(* C18 (summarize_providers): on a zero-row or all-null input the call     *)
(* does not raise and every aggregate of every returned row is a defined,  *)
(* non-null value, the requested-seats sum of a provider whose             *)
(* requested-seat values are all missing included.                         *)
(***************************************************************************)
C18_ProviderAggregatesDefined ==
    ProvidersReturned =>
        \A i \in DOMAIN ret.out :
            \A c \in {OUT_BEVILJADE_PLATSER, OUT_SOKTA_PLATSER, OUT_RATE_PLATSER,
                       OUT_BEVILJADE_KURSER, OUT_SOKTA_KURSER, OUT_RATE_KURSER} :
                IsNum(ret.out[i][c])

\* the requested seats of one record by the stated priority: the total
\* column, else the alternative total column, else the year columns summed
\* with missing values as 0, else 0 (a missing total reads as no value)
RequestedSeats(r) ==
    IF COL_TOTAL_SOKTA \in Columns(df) THEN Coalesce0(r[COL_TOTAL_SOKTA])
    ELSE IF SOKTA_PLATSER_TOTALT \in Columns(df) THEN Coalesce0(r[SOKTA_PLATSER_TOTALT])
    ELSE SumSeq([j \in DOMAIN df.cols |->
                    IF StartsWith(df.cols[j], YEAR_COL_PREFIX)
                    THEN Coalesce0(r[df.cols[j]]) ELSE 0])

\* the caller's records of the provider of an output row
RecordsOf(out_row) ==
    SelectSeq(df.rows, LAMBDA r : Strip(AsStr(r[COL_ANORDNARE])) = out_row[OUT_PROVIDER].s)

(***************************************************************************)
(* C25: summarize_providers takes the requested seats of a provider from   *)
(* the pre-aggregated total column if present; otherwise from the row-wise *)
(* sum of the columns named 'Sökt antal platser <year>', missing values as *)
(* 0; otherwise as the literal 0.  It does not raise because a             *)
(* requested-seats column is absent.                                       *)
(***************************************************************************)
C25_RequestedSeatsPriority ==
    (/\ call.op = "summarize_providers"
     /\ {COL_ANORDNARE, COL_BESLUT} \subseteq Columns(df)
     /\ GrantedCol(df) # NoneArg)
    => /\ ret.raised = ""
       /\ \A i \in DOMAIN ret.out :
              Coalesce0(ret.out[i][OUT_SOKTA_PLATSER]) =
                  SumSeq([j \in DOMAIN RecordsOf(ret.out[i]) |->
                             RequestedSeats(RecordsOf(ret.out[i])[j])])

\* no total column: provider a has the year cells (1, missing) and (1, 1) and
\* gets 3 requested seats
C25_Witness ==
    /\ ProvidersReturned
    /\ df.cols = SEAT_BASE_COLS \o <<SOKT_2025, SOKT_2026>>
    /\ Len(df.rows) = 2
    /\ \A i \in 1..2 : df.rows[i][COL_ANORDNARE] = Str(<<"a">>)
    /\ df.rows[1][SOKT_2025] = Num(1) /\ df.rows[1][SOKT_2026] = NaN
    /\ df.rows[2][SOKT_2025] = Num(1) /\ df.rows[2][SOKT_2026] = Num(1)
    /\ Len(ret.out) = 1
    /\ ret.out[1][OUT_SOKTA_PLATSER] = Num(3)

\* the record set with every seat value replaced by 0: all record sets that
\* differ only in seat values have this one image
ZeroSeats(d) ==
    [d EXCEPT !.rows =
        [i \in DOMAIN d.rows |->
            [c \in Columns(d) |->
                IF c \in {COL_ANORDNARE, COL_BESLUT} THEN d.rows[i][c] ELSE Num(0)]]]

\* the (approved course count, courses approval rate) tuple of an output row
CoursesTuple(row) == <<row[OUT_BEVILJADE_KURSER], row[OUT_RATE_KURSER]>>

(***************************************************************************)
(* C26: 'Ranking beviljade kurser' depends only on each provider's         *)
(* (approved course count, courses approval rate): it is the dense rank of *)
(* that tuple, and the record set with other granted and requested seat    *)
(* values (here: all of them 0) gives every provider the same rank.        *)
(***************************************************************************)
C26_CourseRankIgnoresSeats ==
    ProvidersReturned =>
        /\ \A i \in DOMAIN ret.out :
               ret.out[i][OUT_RANK_KURSER] =
                   1 + Cardinality({CoursesTuple(ret.out[j]) :
                          j \in {k \in DOMAIN ret.out :
                                    KeyBefore(ret.out[k], ret.out[i],
                                              OUT_BEVILJADE_KURSER, OUT_RATE_KURSER)}})
        /\ \A other \in summarize_providers(ZeroSeats(df), COL_ANORDNARE) :
               /\ other.raised = ""
               /\ Len(other.out) = Len(ret.out)
               /\ \A i \in DOMAIN ret.out : \A j \in DOMAIN other.out :
                      ret.out[i][OUT_PROVIDER] = other.out[j][OUT_PROVIDER]
                          => ret.out[i][OUT_RANK_KURSER] = other.out[j][OUT_RANK_KURSER]

\* two providers that the two rankings order in opposite ways
C26_Witness ==
    /\ ProvidersReturned
    /\ \E i, j \in DOMAIN ret.out :
          /\ ret.out[i][OUT_RANK_PLATSER] < ret.out[j][OUT_RANK_PLATSER]
          /\ ret.out[i][OUT_RANK_KURSER] > ret.out[j][OUT_RANK_KURSER]

(***************************************************************************)
(* Specification GenderSpec: calculate_gender_distribution over cohort     *)
(* tables whose all-ages, all-areas totals of one year are bounded counts. *)
(***************************************************************************)
COHORT_COLS == ID_VARS \o << <<"2020">>, <<"2021">> >>

CohortRow(kon, omrade, alder, n2020, n2021) ==
    (COL_KON :> Str(<<kon>>)) @@ (COL_OMRADE :> Str(<<omrade>>))
    @@ (COL_ALDER :> Str(<<alder>>))
    @@ (<<"2020">> :> Num(n2020)) @@ (<<"2021">> :> Num(n2021))

\* a processed cohort table: the totals rows of women and men, the combined
\* total, and rows of one education area and one age group
CohortFrame(w, m) ==
    [cols |-> COHORT_COLS,
     rows |-> << CohortRow("Kvinnor", "Totalt", "totalt", w, 1),
                 CohortRow("män", "totalt", "Totalt", m, 1),
                 CohortRow("totalt", "totalt", "totalt", w + m, 2),
                 CohortRow("kvinnor", "Data/IT", "totalt", w, 1),
                 CohortRow("män", "totalt", "-24 år", m, 1) >>]

CohortFrames == {CohortFrame(w, m) : w \in 0..MaxCount, m \in 0..MaxCount}

YearArgs == {NoneArg, Str(<<"2020">>), Str(<<"2022">>)}

GenderInit ==
    /\ df \in CohortFrames \cup {EMPTY_FRAME}
    /\ apps = Unreadable
    /\ call = NoCall
    /\ ret = NoRet
    /\ state = NoState

CalculateGenderDistribution ==
    \E year \in YearArgs :
        \E r \in calculate_gender_distribution(df, year) :
            /\ call' = [op |-> "calculate_gender_distribution", year |-> year]
            /\ ret' = r
            /\ UNCHANGED <<df, apps, state>>

GenderNext == CalculateGenderDistribution

GenderSpec == GenderInit /\ [][GenderNext]_vars

\* calculate_gender_distribution returned for positive women and men counts
GenderBothPositive ==
    /\ call.op = "calculate_gender_distribution"
    /\ "women_count" \in DOMAIN ret
    /\ ret["women_count"] > 0
    /\ ret["men_count"] > 0

\* the denominators whose pair of numerators has no zero, for the returned counts
ScoredDenominators ==
    {d \in 1..10 :
        /\ WomenNumerator(ret["women_count"], ret["men_count"], d) # 0
        /\ MenNumerator(ret["women_count"], ret["men_count"], d) # 0}

ScoredPair(d) ==
    <<WomenNumerator(ret["women_count"], ret["men_count"], d),
      MenNumerator(ret["women_count"], ret["men_count"], d)>>

\* 2 * |wn / (wn + mn) - w / (w + m)| as an exact fraction: the absolute error
\* of the reconstructed shares against the true shares
ScoredError(d) ==
    LET w == ret["women_count"]
        m == ret["men_count"]
        p == ScoredPair(d)
    IN  [num |-> 2 * Abs(p[1] * m - p[2] * w), den |-> (p[1] + p[2]) * (w + m)]

\* the returned ratio is the pair of denominator d, no earlier scored pair
\* stopped the search or scored as well (an exactly equal error of another
\* fraction is decided by floating-point rounding), and either d stopped the
\* search (error < 0.01) or no later scored pair has a lower error
ReturnedIsBestAt(d) ==
    /\ ret["ratio_simple"] = RatioText(ScoredPair(d))
    /\ \A e \in ScoredDenominators :
          e < d =>
              /\ ~ErrBelowThreshold(ScoredError(e))
              /\ \/ ErrLess(ScoredError(d), ScoredError(e))
                 \/ /\ ErrEqual(ScoredError(d), ScoredError(e))
                    /\ ~SameFraction(ScoredPair(d), ScoredPair(e))
    /\ \/ ErrBelowThreshold(ScoredError(d)) \/ ErrAtThreshold(ScoredError(d))
       \/ \A e \in ScoredDenominators :
              e > d => ~ErrLess(ScoredError(e), ScoredError(d))

\* the original statement of C9: for positive counts the result is always the
\* best scored pair of the search
C9_ReturnsBestScoredPair ==
    GenderBothPositive =>
        /\ \E d \in ScoredDenominators : ReturnedIsBestAt(d)
        /\ (ret["women_count"] = 59 /\ ret["men_count"] = 41
                => ret["ratio_simple"] = <<"3", ":", "2">>)

(***************************************************************************)
(* C9 (amended): for positive women and men counts the search over the     *)
(* denominators 1..10 returns the scored pair with the lowest error, the   *)
(* earliest on equal error, stopping at the first pair with error < 0.01;  *)
(* when every denominator is skipped (a numerator rounds to 0 each time)   *)
(* it returns the default "1:1"; women=59, men=41 give "3:2".              *)
(***************************************************************************)
C9_BestScoredPairOrDefault ==
    GenderBothPositive =>
        /\ IF ScoredDenominators = {}
           THEN ret["ratio_simple"] = <<"1", ":", "1">>
           ELSE \E d \in ScoredDenominators : ReturnedIsBestAt(d)
        /\ (ret["women_count"] = 59 /\ ret["men_count"] = 41
                => ret["ratio_simple"] = <<"3", ":", "2">>)

\* women=59, men=41 of year 2020 returned "3:2"
C9_Witness ==
    /\ GenderBothPositive
    /\ call.year = Str(<<"2020">>)
    /\ ret["women_count"] = 59
    /\ ret["men_count"] = 41
    /\ ret["ratio_simple"] = <<"3", ":", "2">>

\* the students of one gender in the table: the all-ages, all-areas rows of
\* the gender, over the requested year (every year when none is requested)
TableGenderCount(gender) ==
    LET total_rows ==
            SelectSeq(df.rows, LAMBDA r : /\ Lower(r[COL_KON]) = gender
                                         /\ Lower(r[COL_OMRADE]) = <<"totalt">>
                                         /\ Lower(r[COL_ALDER]) = <<"totalt">>)
        year_cols ==
            SelectSeq(df.cols, LAMBDA c : /\ c \notin Range(ID_VARS)
                                         /\ (call.year = NoneArg \/ c = AsStr(call.year)))
    IN  SumSeq([i \in DOMAIN total_rows |->
                   SumSeq([j \in DOMAIN year_cols |-> total_rows[i][year_cols[j]].n])])

(***************************************************************************)
(* C28: when the women count and the men count are both positive,          *)
(* ratio_simple is 'a:b' with 1 <= a <= 10 and 1 <= b <= 10; it is '0:0'   *)
(* exactly when one of the two counts is 0 or the table has no data for    *)
(* the requested year (both counts are then 0).                            *)
(***************************************************************************)
C28_RatioRange ==
    call.op = "calculate_gender_distribution" =>
        LET women == TableGenderCount(<<"kvinnor">>)
            men == TableGenderCount(<<"män">>)
        IN  /\ (women > 0 /\ men > 0) =>
                   \E a, b \in 1..10 :
                       ret["ratio_simple"] = <<ToString(a), ":", ToString(b)>>
            /\ ret["ratio_simple"] = <<"0", ":", "0">> <=> (women = 0 \/ men = 0)

\* 1 woman and 9 men in 2020 give '1:9'
C28_Witness ==
    /\ call.op = "calculate_gender_distribution"
    /\ call.year = Str(<<"2020">>)
    /\ TableGenderCount(<<"kvinnor">>) = 1
    /\ TableGenderCount(<<"män">>) = 9
    /\ ret["ratio_simple"] = <<"1", ":", "9">>

(***************************************************************************)
(* Specification EnrichSpec: enrich_base_data applied to a base record set *)
(* and then to its own output, over bounded base sets and application      *)
(* sheets.                                                                 *)
(***************************************************************************)
YEAR_2025 == <<"Sökt antal platser", " ", "2025">>
\* a prefix column written with other case and a leading space
YEAR_2026 == <<" ", "SÖKT ANTAL PLATSER", " ", "2026">>
COL_NAMN == <<"Utbildningsnamn">>

ENRICH_BASE_COLS == <<KEY_COL, COL_ANORDNARE>>
APPS_COLS == <<KEY_COL, COL_NAMN, YEAR_2025, YEAR_2026>>

\* base keys: "A " matches the sheet's "A" once stripped, "C" has no match
BaseKeys == {Str(<<"A", " ">>), Str(<<"C">>)}

BaseRows == {(KEY_COL :> k) @@ (COL_ANORDNARE :> Str(<<"a">>)) : k \in BaseKeys}

\* a base record set without the key column
NoKeyBase ==
    [cols |-> <<COL_ANORDNARE>>, rows |-> << (COL_ANORDNARE :> Str(<<"a">>)) >>]

\* sheet keys: "A" and "A " are one key once stripped
AppsKeys == {Str(<<"A">>), Str(<<"A", " ">>), Str(<<"B">>)}

\* 2025 cells: a number, a missing value, a number written as text
Year2025Values == {Num(1), NaN, Str(<<"3">>)}

\* 2026 cells: a number, a text that is no number
Year2026Values == {Num(2), Str(<<"x">>)}

AppsRows ==
    {(KEY_COL :> k) @@ (COL_NAMN :> Str(<<"n">>))
        @@ (YEAR_2025 :> v1) @@ (YEAR_2026 :> v2) :
        k \in AppsKeys, v1 \in Year2025Values, v2 \in Year2026Values}

\* sheets without the key column, and without a prefix column
NoKeyApps == [cols |-> <<YEAR_2025>>, rows |-> << (YEAR_2025 :> Num(1)) >>]
NoPrefixApps ==
    [cols |-> <<KEY_COL, COL_NAMN>>,
     rows |-> << (KEY_COL :> Str(<<"A">>)) @@ (COL_NAMN :> Str(<<"n">>)) >>]

\* the suffix argument: the default "" and the one load_base_df passes
SUFFIX_APPS == <<" (ansökningar)">>
SuffixArgs == {<<>>, SUFFIX_APPS}

\* the prefix argument: the default, and the prefix written in capitals and
\* with a leading space
PrefixArgs == {SOKT_PREFIX, <<"SÖKT ANTAL PLATSER">>, <<" ", "Sökt antal platser">>}

EnrichInit ==
    /\ \/ \E k \in 0..MaxBaseRows : \E rs \in [1..k -> BaseRows] :
              df = [cols |-> ENRICH_BASE_COLS, rows |-> rs]
       \/ df = NoKeyBase
    /\ \/ \E k \in 0..MaxAppsRows : \E rs \in [1..k -> AppsRows] :
              apps = [cols |-> APPS_COLS, rows |-> rs]
       \/ apps \in {NoKeyApps, NoPrefixApps, Unreadable}
    /\ call = NoCall
    /\ ret = NoRet
    /\ state = NoState

\* enrich_base_data(df, prefix=prefix, suffix=suffix)
Enrich ==
    \E prefix \in PrefixArgs, suffix \in SuffixArgs :
        /\ call.op = "none"
        /\ call' = [op |-> "enrich_base_data", prefix |-> prefix, suffix |-> suffix,
                    pass |-> 1]
        /\ ret' = [raised |-> "",
                   out |-> enrich_base_data(df, apps, KEY_COL, prefix, suffix)]
        /\ UNCHANGED <<df, apps, state>>

\* df = enrich_base_data(df, suffix=suffix) once more: the caller keeps the
\* first output as its record set and enriches it with the same arguments
ReEnrich ==
    /\ call.op = "enrich_base_data"
    /\ call.pass = 1
    /\ df' = ret.out
    /\ call' = [call EXCEPT !.pass = 2]
    /\ ret' = [raised |-> "",
               out |-> enrich_base_data(ret.out, apps, KEY_COL, call.prefix, call.suffix)]
    /\ UNCHANGED <<apps, state>>

EnrichNext == Enrich \/ ReEnrich

EnrichSpec == EnrichInit /\ [][EnrichNext]_vars

\* enrich_base_data has been applied to its own output, which carried the
\* derived total
ReEnriched ==
    /\ call.op = "enrich_base_data"
    /\ call.pass = 2
    /\ COL_TOTAL_SOKTA \in Columns(df)

(***************************************************************************)
(* C6: applying enrich_base_data to its own output with the same sheet,    *)
(* key, prefix and suffix leaves every row's 'Totalt antal sökta platser'  *)
(* unchanged, and gains or loses no row.                                   *)
(***************************************************************************)
C6_ReEnrichKeepsTotal ==
    ReEnriched =>
        /\ COL_TOTAL_SOKTA \in Columns(ret.out)
        /\ Len(ret.out.rows) = Len(df.rows)
        /\ \A i \in DOMAIN df.rows :
              ret.out.rows[i][COL_TOTAL_SOKTA] = df.rows[i][COL_TOTAL_SOKTA]

\* an enrich_base_data call has returned; df is the record set it was given
EnrichReturned == call.op = "enrich_base_data"

(***************************************************************************)
(* C13: when the key column is missing from the base record set or from    *)
(* the applications sheet, enrich_base_data does not raise and returns the *)
(* base record set as it was: same rows, same columns, no derived total.   *)
(***************************************************************************)
C13_MissingKeyReturnsBase ==
    (/\ EnrichReturned
     /\ \/ KEY_COL \notin Columns(df)
        \/ apps # Unreadable /\ KEY_COL \notin Columns(apps))
    => /\ ret.raised = ""
       /\ ret.out = df
       /\ COL_TOTAL_SOKTA \notin Columns(ret.out)

\* a base of two keyed rows enriched from a readable sheet without the key
C13_Witness ==
    /\ EnrichReturned
    /\ apps = NoKeyApps
    /\ KEY_COL \in Columns(df)
    /\ Len(df.rows) = 2
    /\ ret.out = df

(***************************************************************************)
(* C14: the output of enrich_base_data has every base row exactly once, in *)
(* the base order (row i of the output carries the cells of base row i,    *)
(* its key stripped), however many sheet rows share a key and whether or   *)
(* not a sheet row matches.                                                *)
(***************************************************************************)
C14_EveryBaseRowOnce ==
    (EnrichReturned /\ call.pass = 1) =>
        /\ Len(ret.out.rows) = Len(df.rows)
        /\ \A i \in DOMAIN df.rows :
              \A c \in Columns(df) :
                  ret.out.rows[i][c] =
                      IF c = KEY_COL /\ ret.out # df
                      THEN Str(Strip(AsStr(df.rows[i][c]))) ELSE df.rows[i][c]

\* two sheet rows share the key of the first base row, none has the key of the
\* second, and the output has the two base rows
C14_Witness ==
    /\ EnrichReturned
    /\ call.pass = 1
    /\ Len(df.rows) = 2
    /\ df.rows[1][KEY_COL] = Str(<<"A", " ">>)
    /\ df.rows[2][KEY_COL] = Str(<<"C">>)
    /\ apps # Unreadable
    /\ apps.cols = APPS_COLS
    /\ Len(apps.rows) = 2
    /\ apps.rows[1][KEY_COL] = Str(<<"A">>)
    /\ apps.rows[2][KEY_COL] = Str(<<"A", " ">>)
    /\ Len(ret.out.rows) = 2
    /\ COL_TOTAL_SOKTA \in Columns(ret.out)

\* the prefix-matched columns a successful enrichment added to the base
MatchedCols == SelectSeq(ret.out.cols,
                         LAMBDA c : StartsWith(CaseFold(Strip(c)), CaseFold(SOKT_PREFIX)))

\* the sum of a row's prefix-matched values, non-numeric and missing ones as 0
MatchedSum(r) ==
    SumSeq([j \in DOMAIN MatchedCols |-> Coalesce0(ToNumericCoerce(r[MatchedCols[j]]))])

(***************************************************************************)
(* C15: after a successful enrichment every base row carries a numeric     *)
(* 'Totalt antal sökta platser' equal to the sum of the row's              *)
(* prefix-matched values, non-numeric and missing values counted as 0; it  *)
(* is 0, not null, when all of them are missing (a base row whose key is   *)
(* in no sheet row).                                                       *)
(***************************************************************************)
C15_TotalIsRowSum ==
    (EnrichReturned /\ call.pass = 1 /\ COL_TOTAL_SOKTA \in Columns(ret.out)) =>
        \A i \in DOMAIN ret.out.rows :
            ret.out.rows[i][COL_TOTAL_SOKTA] = Num(MatchedSum(ret.out.rows[i]))

\* the sheet rows whose stripped key is the stripped key of base row i
SheetRowsOf(i) ==
    {j \in DOMAIN apps.rows :
        Strip(AsStr(apps.rows[j][KEY_COL])) = Strip(AsStr(df.rows[i][KEY_COL]))}

\* the last of them in file order
LastSheetRowOf(i) ==
    apps.rows[CHOOSE j \in SheetRowsOf(i) : \A k \in SheetRowsOf(i) : k <= j]

\* a first enrichment has merged the sheet's year columns into the base
EnrichedFromSheet ==
    /\ EnrichReturned
    /\ call.pass = 1
    /\ apps # Unreadable
    /\ YEAR_2025 \in Columns(apps)
    /\ COL_TOTAL_SOKTA \in Columns(ret.out)

\* the cell is the sheet's cell, as a number where the sheet's cell reads as one
SameValue(out_cell, sheet_cell) ==
    IF IsNaN(sheet_cell) THEN IsNaN(out_cell)
    ELSE IF CanBeNumeric(sheet_cell)
    THEN CanBeNumeric(out_cell) /\ ToNumeric(out_cell) = ToNumeric(sheet_cell)
    ELSE out_cell = sheet_cell

(***************************************************************************)
(* C23: when several sheet rows share a (stripped) key, the base row with  *)
(* that key receives the prefix-matched values and the derived total of    *)
(* the last of them in file order, never of an earlier one and never a     *)
(* combination.                                                            *)
(***************************************************************************)
C23_LastDuplicateWins ==
    EnrichedFromSheet =>
        \A i \in DOMAIN df.rows :
            SheetRowsOf(i) # {} =>
                /\ \A c \in {YEAR_2025, YEAR_2026} :
                       SameValue(ret.out.rows[i][c], LastSheetRowOf(i)[c])
                /\ ret.out.rows[i][COL_TOTAL_SOKTA] =
                       Num(Coalesce0(ToNumericCoerce(LastSheetRowOf(i)[YEAR_2025]))
                           + Coalesce0(ToNumericCoerce(LastSheetRowOf(i)[YEAR_2026])))

\* two sheet rows of key "A" (one written "A "), 1 + 2 seats then 3 + "x":
\* the base row "A " carries 3, "x" and the total 3
C23_Witness ==
    /\ EnrichedFromSheet
    /\ Len(df.rows) = 1
    /\ df.rows[1][KEY_COL] = Str(<<"A", " ">>)
    /\ Len(apps.rows) = 2
    /\ apps.rows[1][KEY_COL] = Str(<<"A">>)
    /\ apps.rows[1][YEAR_2025] = Num(1)
    /\ apps.rows[1][YEAR_2026] = Num(2)
    /\ apps.rows[2][KEY_COL] = Str(<<"A", " ">>)
    /\ apps.rows[2][YEAR_2025] = Str(<<"3">>)
    /\ apps.rows[2][YEAR_2026] = Str(<<"x">>)
    /\ ret.out.rows[1][YEAR_2025] = Num(3)
    /\ ret.out.rows[1][YEAR_2026] = Str(<<"x">>)
    /\ ret.out.rows[1][COL_TOTAL_SOKTA] = Num(3)

\* the sheet's columns other than the key whose stripped, case-folded name
\* starts with the stripped, case-folded prefix of the call
QualifyingCols ==
    {c \in Columns(apps) \ {KEY_COL} :
        StartsWith(CaseFold(Strip(c)), CaseFold(Strip(call.prefix)))}

\* a first enrichment got past the key checks: non-empty base, readable sheet,
\* key column on both sides
EnrichSelected ==
    /\ EnrichReturned
    /\ call.pass = 1
    /\ ~IsEmpty(df)
    /\ apps # Unreadable
    /\ KEY_COL \in Columns(df)
    /\ KEY_COL \in Columns(apps)

(***************************************************************************)
(* C24: enrich_base_data takes from the sheet the key column plus exactly  *)
(* the columns whose stripped, case-folded name starts with the stripped,  *)
(* case-folded prefix (the output has the base columns, those columns and  *)
(* the derived total); when no column qualifies it returns the base set    *)
(* unchanged, without raising.                                             *)
(***************************************************************************)
C24_SelectsPrefixColumns ==
    EnrichSelected =>
        /\ ret.raised = ""
        /\ IF QualifyingCols = {}
           THEN ret.out = df
           ELSE Columns(ret.out) = Columns(df) \cup QualifyingCols \cup {COL_TOTAL_SOKTA}

(***************************************************************************)
(* Specification RegionSpec: match_region_codes over the county names of   *)
(* a regions table and code maps drawn from a few boundary names.          *)
(***************************************************************************)
\* the county names: the texts over a, b of at most MaxNameLen characters
RegionNames == UNION {[1..k -> {"a", "b"}] : k \in 0..MaxNameLen}

\* the names of the boundary dataset, each with its länskod
KeyNames == {<<"a", "b">>, <<"a", "b", "b">>, <<"b", "a">>}

CodeOf(k) ==
    IF k = <<"a", "b">> THEN Str(<<"0", "1">>)
    ELSE IF k = <<"a", "b", "b">> THEN Str(<<"0", "3">>)
    ELSE Str(<<"0", "4">>)

\* build_region_code_map over any part of the boundary dataset
CodeMaps == {[k \in K |-> CodeOf(k)] : K \in SUBSET KeyNames}

\* df_regions["Län"].tolist()
RegionList(d) == [i \in DOMAIN d.rows |-> d.rows[i][COL_LAN].s]

RegionInit ==
    /\ \E k \in 0..MaxRegions :
          \E rs \in [1..k -> {(COL_LAN :> Str(n)) : n \in RegionNames}] :
              df = [cols |-> <<COL_LAN>>, rows |-> rs]
    /\ apps = Unreadable
    /\ call = NoCall
    /\ ret = NoRet
    /\ state = NoState

MatchRegionCodes ==
    \E code_map \in CodeMaps :
        /\ call' = [op |-> "match_region_codes", code_map |-> code_map]
        /\ ret' = [raised |-> "", out |-> match_region_codes(RegionList(df), code_map)]
        /\ UNCHANGED <<df, apps, state>>

RegionNext == MatchRegionCodes

RegionSpec == RegionInit /\ [][RegionNext]_vars

\* the keys of the code map whose similarity to the name is at least 0.6
\* (twice the matched characters over the total length)
SimilarKeys(name) ==
    {k \in DOMAIN call.code_map :
        10 * 2 * MatchCount(k, name) >= 6 * (Len(k) + Len(name))}

(***************************************************************************)
(* C12: match_region_codes does not raise and returns one entry per input  *)
(* name, in input order: None for a name with no sufficiently similar key  *)
(* in the code map, and otherwise the code of a sufficiently similar key,  *)
(* never another code.                                                     *)
(***************************************************************************)
C12_UnmatchedNameIsNull ==
    call.op = "match_region_codes" =>
        /\ ret.raised = ""
        /\ Len(ret.out) = Len(df.rows)
        /\ \A i \in DOMAIN df.rows :
              IF SimilarKeys(RegionList(df)[i]) = {}
              THEN ret.out[i] = NoneArg
              ELSE \E k \in SimilarKeys(RegionList(df)[i]) : ret.out[i] = call.code_map[k]

\* "bb" is matched to "abb" and "aa" to nothing, against the three keys
C12_Witness ==
    /\ call.op = "match_region_codes"
    /\ DOMAIN call.code_map = KeyNames
    /\ RegionList(df) = << <<"b", "b">>, <<"a", "a">> >>
    /\ ret.out = << Str(<<"0", "3">>), NoneArg >>

(***************************************************************************)
(* Specification GrowthSpec: calculate_year_growth over cohort tables with *)
(* zero to three year columns and bounded yearly totals.                   *)
(***************************************************************************)
\* the year columns of a table, in file order (not ascending)
YearLayouts ==
    { <<>>,
      << <<"2021">> >>,
      << <<"2021">>, <<"2020">> >>,
      << <<"2021">>, <<"2020">>, <<"2022">> >> }

\* one wide row with the given count in every year column
GrowthRow(kon, omrade, alder, years, counts) ==
    [c \in Range(ID_VARS) \cup Range(years) |->
        IF c = COL_KON THEN Str(<<kon>>)
        ELSE IF c = COL_OMRADE THEN Str(<<omrade>>)
        ELSE IF c = COL_ALDER THEN Str(<<alder>>)
        ELSE Num(counts[c])]

\* a processed cohort table: the combined totals row, a women's totals row and
\* a combined row of one education area
GrowthFrame(years, totals) ==
    [cols |-> ID_VARS \o years,
     rows |-> << GrowthRow("Totalt", "totalt", "Totalt", years, totals),
                 GrowthRow("kvinnor", "totalt", "totalt", years, [c \in Range(years) |-> 1]),
                 GrowthRow("totalt", "Data/IT", "totalt", years, totals) >>]

\* a table whose rows are all of one education area: no totals rows
NoTotalsFrame ==
    [cols |-> ID_VARS \o << <<"2021">>, <<"2020">> >>,
     rows |-> << GrowthRow("totalt", "Data/IT", "totalt", << <<"2021">>, <<"2020">> >>,
                           [c \in {<<"2021">>, <<"2020">>} |-> 2]) >>]

GrowthYearArgs ==
    {Num(2021), Str(<<"2020">>), Str(<<"2021">>), Str(<<"2022">>), Str(<<"2023">>)}

GrowthInit ==
    /\ \/ \E years \in YearLayouts : \E totals \in [Range(years) -> 0..MaxTotal] :
              df = GrowthFrame(years, totals)
       \/ df \in {EMPTY_FRAME, NoTotalsFrame}
    /\ apps = Unreadable
    /\ call = NoCall
    /\ ret = NoRet
    /\ state = NoState

CalculateYearGrowth ==
    \E year \in GrowthYearArgs :
        \E r \in calculate_year_growth(df, year) :
            /\ call' = [op |-> "calculate_year_growth", year |-> year]
            /\ ret' = r
            /\ UNCHANGED <<df, apps, state>>

GrowthNext == CalculateYearGrowth

GrowthSpec == GrowthInit /\ [][GrowthNext]_vars

\* calculate_year_growth has returned
GrowthReturned == call.op = "calculate_year_growth"

\* the digit-named columns of the table after the third, and the least of them
TableYears == {df.cols[i] : i \in {j \in DOMAIN df.cols : j > 3 /\ IsDigitName(df.cols[j])}}
EarliestYear == CHOOSE y \in TableYears : \A z \in TableYears : YearNumber(y[1]) <= YearNumber(z[1])

\* the base-year state of the returned dictionary
IsBaseYearState ==
    /\ ret["is_first_year"] = TRUE
    /\ ret["growth_pct"] = 0
    /\ ret["growth_count"] = 0
    /\ ret["is_increase"] = FALSE

(***************************************************************************)
(* C19: calculate_year_growth returns the base-year state (is_first_year   *)
(* True, growth_pct 0, growth_count 0, is_increase False) exactly when     *)
(* fewer than 2 years are available or the target year is the earliest     *)
(* available year; otherwise is_first_year is False.                       *)
(***************************************************************************)
C19_BaseYearExactly ==
    GrowthReturned =>
        IF Cardinality(TableYears) < 2 \/ AsStr(call.year) = EarliestYear
        THEN IsBaseYearState
        ELSE ret["is_first_year"] = FALSE

\* three years in the table, asked for the earliest, which is not the first
\* column
C19_Witness ==
    /\ GrowthReturned
    /\ Cardinality(TableYears) = 3
    /\ call.year = Str(<<"2020">>)
    /\ IsBaseYearState

\* the combined total of one year column: the rows of all ages and all areas
\* whose gender reads "totalt"
TableTotal(y) ==
    LET mine == SelectSeq(df.rows, LAMBDA r : /\ Lower(r[COL_KON]) = <<"totalt">>
                                              /\ Lower(r[COL_OMRADE]) = <<"totalt">>
                                              /\ Lower(r[COL_ALDER]) = <<"totalt">>)
    IN  SumSeq([i \in DOMAIN mine |-> mine[i][y].n])

\* the available year immediately before y
PrecedingYear(y) ==
    CHOOSE p \in TableYears :
        /\ YearNumber(p[1]) < YearNumber(y[1])
        /\ \A z \in TableYears :
              YearNumber(z[1]) < YearNumber(y[1]) => YearNumber(z[1]) <= YearNumber(p[1])

(***************************************************************************)
(* C20: for a target year that is available and not the first,             *)
(* growth_count = (current-year total) - (total of the immediately         *)
(* preceding available year), growth_pct = growth_count / previous total   *)
(* * 100 (to the nearest tenth), 0 when the previous total is 0, and       *)
(* is_increase is true exactly when growth_count > 0.                      *)
(***************************************************************************)
C20_GrowthFromPrecedingYear ==
    (/\ GrowthReturned
     /\ AsStr(call.year) \in TableYears
     /\ AsStr(call.year) # EarliestYear)
    => LET current_total == TableTotal(AsStr(call.year))
           previous_total == TableTotal(PrecedingYear(AsStr(call.year)))
           growth == current_total - previous_total
       IN  /\ ret["growth_count"] = growth
           /\ IF previous_total = 0 THEN ret["growth_pct"] = 0
              ELSE 2 * Abs(ret["growth_pct"] * previous_total - 1000 * growth)
                       <= previous_total
           /\ ret["is_increase"] = (growth > 0)


(***************************************************************************)
(* Specification RatesSpec: every rate computation, over record sets of    *)
(* at most MaxRateRows applications (the empty record set included) and    *)
(* over cohort tables whose yearly totals may be 0.                        *)
(***************************************************************************)
RATE_COLS ==
    <<COL_LAN, COL_BESLUT, COL_EDUCATION_AREA, COL_ANORDNARE,
      COL_TOTAL_BEVILJADE_PLATSER, COL_TOTAL_SOKTA>>

RateProviders == {Str(<<"a">>), Str(<<"b">>)}

RateRows ==
    {(COL_LAN :> l) @@ (COL_BESLUT :> k[1]) @@ (COL_EDUCATION_AREA :> Str(<<"A">>))
        @@ (COL_ANORDNARE :> n)
        @@ (COL_TOTAL_BEVILJADE_PLATSER :> k[2]) @@ (COL_TOTAL_SOKTA :> k[3]) :
        l \in LanValues, n \in RateProviders, k \in ApplicationKinds}

ViewCountyArgs == {Str(<<" ", "X">>), Str(<<"Y">>), Str(<<"Z">>)}

\* the table is a record set of applications / a processed cohort table
IsRecordSet == COL_BESLUT \in Columns(df)
IsCohortTable == COL_KON \in Columns(df)

RatesInit ==
    /\ \/ \E k \in 0..MaxRateRows : \E rs \in [1..k -> RateRows] :
              df = [cols |-> RATE_COLS, rows |-> rs]
       \/ \E w \in 0..MaxRateCount, m \in 0..MaxRateCount : df = CohortFrame(w, m)
    /\ apps = Unreadable
    /\ call = NoCall
    /\ ret = NoRet
    /\ state = NoState

ComputeNationalStats ==
    \E r \in compute_national_stats(df) :
        /\ call' = [op |-> "compute_national_stats"]
        /\ ret' = r
        /\ UNCHANGED <<df, apps, state>>

ComputeCountyView ==
    \E county \in ViewCountyArgs :
        \E r \in compute_county_view(df, county) :
            /\ call' = [op |-> "compute_county_view", county |-> county]
            /\ ret' = r
            /\ UNCHANGED <<df, apps, state>>

RatesNext ==
    \/ IsRecordSet /\ GetStatistics
    \/ IsRecordSet /\ ComputeNationalStats
    \/ IsRecordSet /\ ComputeCountyView
    \/ IsRecordSet /\ SummarizeProviders
    \/ IsCohortTable /\ CalculateGenderDistribution
    \/ IsCohortTable /\ CalculateYearGrowth

RatesSpec == RatesInit /\ [][RatesNext]_vars

\* the call has returned a dictionary with the given key (it did not raise)
Returned(op, key) == call.op = op /\ key \in DOMAIN ret

(***************************************************************************)
(* C11: every rate computation returns 0 when its denominator is 0: the    *)
(* scope and per-area approval rates of get_statistics, both rates of      *)
(* compute_national_stats, the places rate of compute_county_view, both    *)
(* provider rates of summarize_providers, the gender percentages of        *)
(* calculate_gender_distribution and the growth percentage of              *)
(* calculate_year_growth; none of them fails on such an input.             *)
(***************************************************************************)
C11_ZeroDenominatorGivesZero ==
    /\ call.op \in {"get_statistics", "summarize_providers"} => ret.raised = ""
    /\ call.op \in {"compute_national_stats", "compute_county_view"}
           => "raised" \notin DOMAIN ret
    /\ StatsReturned =>
           /\ ret.stats["Ansökta Kurser"] = 0 => ret.stats["Beviljandegrad (%)"] = 0
           /\ \A i \in DOMAIN ret.summary.rows :
                  ret.summary.rows[i][SUMMARY_REQUESTED] = 0
                      => ret.summary.rows[i][SUMMARY_RATE] = 0
    /\ Returned("compute_national_stats", "national_total_courses") =>
           /\ ret["national_total_courses"] = 0
                  => ret["national_approval_rate_str"] = <<"0", "%">>
           /\ ret["national_requested_places"] = 0
                  => ret["national_places_approval_rate_str"] = <<"0", ".", "0", "%">>
    /\ Returned("compute_county_view", "requested_places") =>
           /\ ret["requested_places"] = 0
                  => ret["places_approval_rate_str"] = <<"0", ".", "0", "%">>
           /\ ret["total_courses"] = 0
                  => ret["approval_rate_str"] = <<"0", ".", "0", "%">>
    /\ ProvidersReturned =>
           \A i \in DOMAIN ret.out :
               /\ ret.out[i][OUT_SOKTA_PLATSER] \in {NaN, Num(0)}
                      => ret.out[i][OUT_RATE_PLATSER] = Num(0)
               /\ ret.out[i][OUT_SOKTA_KURSER] = Num(0)
                      => ret.out[i][OUT_RATE_KURSER] = Num(0)
    /\ Returned("calculate_gender_distribution", "women_count") =>
           (ret["women_count"] + ret["men_count"] = 0
               => ret["women_pct"] = 0 /\ ret["men_pct"] = 0)
    /\ Returned("calculate_year_growth", "previous_total") =>
           (ret["previous_total"] = 0 => ret["growth_pct"] = 0)

\* compute_national_stats has returned for the empty record set: no course
\* and no requested seat, both rates 0
C11_Witness ==
    /\ Returned("compute_national_stats", "national_total_courses")
    /\ df.rows = <<>>
    /\ ret["national_total_courses"] = 0
    /\ ret["national_requested_places"] = 0
    /\ ret["national_approval_rate_str"] = <<"0", "%">>
    /\ ret["national_places_approval_rate_str"] = <<"0", ".", "0", "%">>

(***************************************************************************)
(* Specification ProviderViewSpec: compute_provider_view against the       *)
(* summary table that summarize_providers gives for the record set.        *)
(***************************************************************************)
\* the selected provider: names of the record sets (one with blanks around
\* it), a name of no record set, the empty and the blank name
ProviderArgs ==
    {Str(<<"a">>), Str(<<" ", "b", " ">>), Str(<<"z">>), Str(<<>>), Str(<<" ">>)}

\* the record sets of the page carry the education area; a record set of one
\* application without that column is kept as well
VIEW_COLS == PROVIDER_COLS \o <<COL_EDUCATION_AREA>>

ViewRows == {r @@ (COL_EDUCATION_AREA :> Str(<<"A">>)) : r \in ProviderRows}

ProviderViewInit ==
    /\ \/ \E k \in 0..MaxViewRows : \E rs \in [1..k -> ViewRows] :
              df = [cols |-> VIEW_COLS, rows |-> rs]
       \/ \E rs \in [1..1 -> ProviderRows] : df = [cols |-> PROVIDER_COLS, rows |-> rs]
    /\ apps = Unreadable
    /\ call = NoCall
    /\ ret = NoRet
    /\ state = NoState

\* df_providers = summarize_providers(df); compute_provider_view(df, df_providers, provider)
ComputeProviderView ==
    \E provider \in ProviderArgs :
        \E sp \in summarize_providers(df, COL_ANORDNARE) :
            /\ sp.raised = ""
            /\ call' = [op |-> "compute_provider_view", provider |-> provider,
                        df_providers |-> sp.out]
            /\ ret' = compute_provider_view(df, sp.out, provider)
            /\ UNCHANGED <<df, apps, state>>

ProviderViewNext == ComputeProviderView

ProviderViewSpec == ProviderViewInit /\ [][ProviderViewNext]_vars

\* the looked-up name is empty once stripped, or the stripped name of no row
\* of the summary table
ProviderNotFound ==
    /\ call.op = "compute_provider_view"
    /\ \/ Strip(call.provider.s) = <<>>
       \/ \A i \in DOMAIN call.df_providers :
              Strip(AsStr(call.df_providers[i][OUT_PROVIDER])) # Strip(call.provider.s)

(***************************************************************************)
(* C21: looking up a provider that is not in the summary table, or an      *)
(* empty name, does not raise and returns the placeholder view: rank 0,    *)
(* '0 av N' with N the number of providers of the table, '0 av 0' and      *)
(* '0.0%' for seats and for courses.                                       *)
(***************************************************************************)
C21_NotFoundPlaceholder ==
    ProviderNotFound =>
        /\ "raised" \notin DOMAIN ret
        /\ ret["provider_rank_places"] = 0
        /\ ret["provider_rank_places_summary_str"] =
               <<"0", " av ", ToString(Len(call.df_providers))>>
        /\ ret["provider_places_summary_str"] = <<"0", " av ", "0">>
        /\ ret["provider_places_approval_rate_str"] = <<"0", ".", "0", "%">>
        /\ ret["provider_courses_summary_str"] = <<"0", " av ", "0">>
        /\ ret["provider_courses_approval_rate_str"] = <<"0", ".", "0", "%">>

\* "z" looked up in a table of two providers: '0 av 2'
C21_Witness ==
    /\ ProviderNotFound
    /\ call.provider = Str(<<"z">>)
    /\ Len(call.df_providers) = 2
    /\ ret["provider_rank_places_summary_str"] = <<"0", " av ", "2">>

(***************************************************************************)
(* The provider comparison page (frontend/pages/providers_comp.py).        *)
(***************************************************************************)
\* the provider column of the loaded record set, as the page reads it
CompFrames(k) ==
    {[cols |-> <<COL_ANORDNARE>>, rows |-> rs] :
        rs \in [1..k -> {(COL_ANORDNARE :> n) : n \in ProviderNames \cup {NaN}}]}

\* sorted(df["Anordnare namn"].dropna().astype(str).str.strip().unique().tolist())
provider_names(d) ==
    SortTexts({Strip(AsStr(d.rows[i][COL_ANORDNARE])) :
                  i \in {j \in DOMAIN d.rows : ~IsNaN(d.rows[j][COL_ANORDNARE])}})

\* a callback that does not clear the comparison selector
on_comparison_provider_change_NoClear(st) == st

\* on_primary_provider_change(state)
on_primary_provider_change(st) ==
    IF st.primary_provider = st.comparison_provider
    THEN [st EXCEPT !.comparison_provider = <<>>]
    ELSE st

\* on_comparison_provider_change(state)
on_comparison_provider_change(st) ==
    IF st.comparison_provider = st.primary_provider
    THEN [st EXCEPT !.comparison_provider = <<>>]
    ELSE st

\* the warning on_comparison_provider_change sends with notify()
ComparisonWarning(st) ==
    IF st.comparison_provider = st.primary_provider THEN "warning" ELSE ""

ProvidersCompInit ==
    /\ \E k \in 0..MaxCompRows : df \in CompFrames(k)
    /\ apps = Unreadable
    /\ call = NoCall
    /\ ret = NoRet
    /\ state = [page |-> "providers_comp", provider_names |-> provider_names(df),
                primary_provider |-> <<>>, comparison_provider |-> <<>>]

\* the primary selector takes a value of its list, then fires its callback
PrimaryProviderChange ==
    \E v \in Range(state.provider_names) :
        LET bound == [state EXCEPT !.primary_provider = v] IN
        /\ call' = [op |-> "on_primary_provider_change", value |-> v]
        /\ state' = on_primary_provider_change(bound)
        /\ ret' = [raised |-> "", notify |-> ""]
        /\ UNCHANGED <<df, apps>>

\* the comparison selector takes a value of its list, then fires its callback
ComparisonProviderChange ==
    \E v \in Range(state.provider_names) :
        LET bound == [state EXCEPT !.comparison_provider = v] IN
        /\ call' = [op |-> "on_comparison_provider_change", value |-> v]
        /\ state' = on_comparison_provider_change(bound)
        /\ ret' = [raised |-> "", notify |-> ComparisonWarning(bound)]
        /\ UNCHANGED <<df, apps>>

ProvidersCompNext == PrimaryProviderChange \/ ComparisonProviderChange

ProvidersCompSpec == ProvidersCompInit /\ [][ProvidersCompNext]_vars

(***************************************************************************)
(* C29: after any sequence of the two callbacks, each fired after its      *)
(* selector changed, comparison_provider is empty or differs from          *)
(* primary_provider; on_primary_provider_change leaves primary_provider    *)
(* at the value the selector gave it.                                      *)
(***************************************************************************)
C29_ComparisonDiffers ==
    /\ \/ state.comparison_provider = <<>>
       \/ state.comparison_provider # state.primary_provider
    /\ call.op = "on_primary_provider_change" => state.primary_provider = call.value

\* the provider already chosen as primary was chosen for comparison, and the
\* comparison selector was cleared with a warning
C29_Witness ==
    /\ call.op = "on_comparison_provider_change"
    /\ call.value = state.primary_provider
    /\ state.primary_provider = <<"a">>
    /\ state.comparison_provider = <<>>
    /\ ret.notify = "warning"

(***************************************************************************)
(* The county page (frontend/pages/county.py).                             *)
(***************************************************************************)
\* the variables of the page that show the selected county (the two charts
\* are drawings of the same figures)
COUNTY_VARS ==
    {"df_selected_county", "summary", "stats", "total_courses", "approved_courses",
     "approval_rate_str", "requested_places", "approved_places"}

\* (decision, granted seats, requested seats) of the applications of the page
CountyKinds ==
    {<<Str(BESLUT_AVSLAG), Num(0), Num(1)>>,
     <<Str(BESLUT_BEVILJAD), Num(1), Num(1)>>,
     <<Str(BESLUT_BEVILJAD), Num(2), Num(4)>>}

\* rows of the results sheet: counties "X", "Y " (stored with a trailing
\* blank) and "Z", or no county; one provider
CountyRows ==
    {(COL_LAN :> l) @@ (COL_BESLUT :> k[1]) @@ (COL_EDUCATION_AREA :> Str(<<"A">>))
        @@ (COL_ANORDNARE :> Str(<<"a">>))
        @@ (COL_TOTAL_BEVILJADE_PLATSER :> k[2]) @@ (COL_TOTAL_SOKTA :> k[3]) :
        l \in LanValues \cup {Str(<<"Z">>), NaN}, k \in CountyKinds}

\* load_base_df with the sheet already read: Län as stripped text (a missing
\* value becomes the text "nan"), validated, then enriched
load_base_df(sheet_df, applications) ==
    enrich_base_data(NormalizeKey(sheet_df, COL_LAN), applications, KEY_COL,
                     SOKT_PREFIX, SUFFIX_APPS)

\* sorted(df["Län"].dropna().unique().tolist())
all_counties(d) ==
    SortTexts({d.rows[i][COL_LAN].s :
                  i \in {j \in DOMAIN d.rows : ~IsNaN(d.rows[j][COL_LAN])}})

\* the page variables assigned from one view-model
CountyState(counties, selected, vm) ==
    ("page" :> "county") @@ ("all_counties" :> counties)
        @@ ("selected_county" :> selected) @@ [k \in COUNTY_VARS |-> vm[k]]

\* (str(var_value).strip() if var_value is not None else "").strip()
SelectedOf(var_value) ==
    IF var_value = NoneArg THEN <<>> ELSE Strip(Strip(AsStr(var_value)))

\* mutant: the membership test missing: any non-empty value is taken
on_county_change_NoMembershipTest(st, d, var_name, var_value) ==
    LET selected == SelectedOf(var_value) IN
    IF var_name # "selected_county" \/ selected = <<>> THEN {st}
    ELSE {[k \in DOMAIN st |-> IF k \in COUNTY_VARS THEN vm[k]
                               ELSE IF k = "selected_county" THEN selected
                               ELSE st[k]] :
             vm \in {v \in compute_county_view(d, Str(selected)) : "raised" \notin DOMAIN v}}

\* on_county_change(state, var_name, var_value): the states it can leave
on_county_change(st, d, var_name, var_value) ==
    LET selected == SelectedOf(var_value) IN
    IF var_name # "selected_county" THEN {st}
    ELSE IF selected = <<>> \/ selected \notin Range(st.all_counties) THEN {st}
    ELSE {IF "raised" \in DOMAIN vm
          THEN [st EXCEPT !["selected_county"] = selected]
          ELSE [k \in DOMAIN st |-> IF k \in COUNTY_VARS THEN vm[k]
                                    ELSE IF k = "selected_county" THEN selected
                                    ELSE st[k]] :
             vm \in compute_county_view(d, Str(selected))}

CountyVarNames == {"selected_county", "selected_provider"}

CountyEventValues ==
    {NoneArg, Str(<<>>), Str(<<"X">>), Str(<<" ", "X">>), Str(<<"Y", " ">>),
     Str(<<"Z">>), Str(<<"A">>)}

\* the page as loaded: the record set of load_base_df, the first county of
\* the list, or "" without counties, and its view-model
CountyInit ==
    /\ apps = Unreadable
    /\ \E k \in 0..MaxCountyRows : \E rs \in [1..k -> CountyRows] :
           /\ _validate_df(NormalizeKey([cols |-> RATE_COLS, rows |-> rs], COL_LAN))
           /\ df = load_base_df([cols |-> RATE_COLS, rows |-> rs], apps)
    /\ call = NoCall
    /\ ret = NoRet
    /\ LET counties == all_counties(df)
           selected == IF counties # <<>> THEN counties[1] ELSE <<>>
       IN  \E vm \in compute_county_view(df, Str(selected)) :
               /\ "raised" \notin DOMAIN vm
               /\ state = CountyState(counties, selected, vm)

\* the selector (lov=all_counties) binds the chosen name to selected_county,
\* then fires on_county_change with it
SelectCounty ==
    \E v \in Range(state.all_counties) :
        LET bound == [state EXCEPT !["selected_county"] = v] IN
        \E st \in on_county_change(bound, df, "selected_county", Str(v)) :
            /\ call' = [op |-> "on_county_change", state |-> bound,
                        var_name |-> "selected_county", var_value |-> Str(v)]
            /\ state' = st
            /\ ret' = [raised |-> "", out |-> NoneArg]
            /\ UNCHANGED <<df, apps>>

\* on_county_change called with any variable name and value
OnCountyChange ==
    \E var_name \in CountyVarNames, var_value \in CountyEventValues :
        \E st \in on_county_change(state, df, var_name, var_value) :
            /\ call' = [op |-> "on_county_change", state |-> state,
                        var_name |-> var_name, var_value |-> var_value]
            /\ state' = st
            /\ ret' = [raised |-> "", out |-> NoneArg]
            /\ UNCHANGED <<df, apps>>

CountyNext == SelectCounty \/ OnCountyChange

CountySpec == CountyInit /\ [][CountyNext]_vars

\* the page shows a view-model computed for state.selected_county
DisplayedIsComputed ==
    \E vm \in compute_county_view(df, Str(state.selected_county)) :
        /\ "raised" \notin DOMAIN vm
        /\ \A k \in COUNTY_VARS : state[k] = vm[k]

\* the last event left every page variable as it was
EventIgnored == \A k \in COUNTY_VARS \cup {"selected_county"} : state[k] = call.state[k]

(***************************************************************************)
(* C30 as stated: the displayed county state is the one computed for the   *)
(* current selected_county, and an event whose var_name is not             *)
(* 'selected_county', or whose value is empty or not in all_counties,      *)
(* changes neither selected_county nor any displayed variable.             *)
(***************************************************************************)
C30_IgnoresUnlistedValue ==
    /\ DisplayedIsComputed
    /\ (/\ call.op = "on_county_change"
        /\ \/ call.var_name # "selected_county"
           \/ call.var_value \in {NoneArg, Str(<<>>)}
           \/ call.var_value.s \notin Range(state.all_counties))
       => EventIgnored

(***************************************************************************)
(* C30 amended: the displayed county state is the one computed for the     *)
(* current selected_county, and an event whose var_name is not             *)
(* 'selected_county', or whose value is empty or not in all_counties once  *)
(* stripped of surrounding blanks, changes neither selected_county nor     *)
(* any displayed variable.                                                 *)
(***************************************************************************)
C30_IgnoresUnlistedStrippedValue ==
    /\ DisplayedIsComputed
    /\ (/\ call.op = "on_county_change"
        /\ \/ call.var_name # "selected_county"
           \/ SelectedOf(call.var_value) = <<>>
           \/ SelectedOf(call.var_value) \notin Range(state.all_counties))
       => EventIgnored

\* county "Z" had been selected in place of the first county "X" and shows its
\* one application; then the value "A", the name of no county, was ignored
C30_Witness ==
    /\ call.op = "on_county_change"
    /\ call.var_name = "selected_county"
    /\ call.var_value = Str(<<"A">>)
    /\ state.all_counties = << <<"X">>, <<"Z">> >>
    /\ state.selected_county = <<"Z">>
    /\ state.total_courses = 1
    /\ EventIgnored

(***************************************************************************)
(* The caller's record set across calls of the aggregation functions.      *)
(***************************************************************************)
\* a frame together with the object that holds it: writes through a name
\* reach the caller's frame only when the name is bound to the caller's object
CALLER == "df_base"

\* no copy: the name is bound to the object it was given
copy_SameObject(ref) == ref

\* DataFrame.copy(): a new object with the same cells
copy(ref) == [ref EXCEPT !.obj = "copy"]

\* the caller's frame once enrich_base_data has returned: the only write to a
\* frame the function was handed is base[key_col] = ... (line 85), on the
\* object base is bound to at line 84
enrich_base_data_df_base(df_base, sheet, key_col) ==
    IF df_base = NoneArg THEN df_base
    ELSE IF IsEmpty(df_base) THEN df_base
    ELSE IF sheet = Unreadable THEN df_base
    ELSE IF key_col \notin Columns(df_base) THEN df_base
    ELSE IF key_col \notin Columns(sheet) THEN df_base
    ELSE LET base == copy([obj |-> CALLER, frame |-> df_base])
         IN  IF base.obj = CALLER THEN NormalizeKey(df_base, key_col) ELSE df_base

\* pd.to_numeric(cell, errors="coerce"), fillna(0), astype(int)
ToIntCell(v) == IF IsNaN(ToNumericCoerce(v)) THEN Num(0) ELSE ToNumericCoerce(v)

\* filter_data_by_year(df, year): the long rows of one year; a table without
\* the id columns makes melt raise, which is caught and gives the empty frame
filter_data_by_year(d, year) ==
    IF IsEmpty(d) THEN EMPTY_FRAME
    ELSE IF ~(Range(ID_VARS) \subseteq Columns(d)) THEN EMPTY_FRAME
    ELSE LET df_long == Melt(d)
             year_str == AsStr(year)
             WithInt(r) == [r EXCEPT ![COL_ANTAL] = ToIntCell(@)]
         IN  [cols |-> df_long.cols,
              rows |-> SelectSeq([i \in DOMAIN df_long.rows |-> WithInt(df_long.rows[i])],
                                 LAMBDA r : r[COL_AR] = Str(year_str))]

(***************************************************************************)
(* Specification CallsSpec: any sequence of calls of the six functions on  *)
(* the caller's record set, which is a set of at most MaxCallRows          *)
(* application records (keys with and without a trailing blank) or a       *)
(* cohort table.  state keeps the record set as loaded and the function    *)
(* called before the last one.                                             *)
(***************************************************************************)
CALL_COLS == <<KEY_COL>> \o RATE_COLS

CallKinds ==
    {<<Str(BESLUT_AVSLAG), Num(0), Num(1)>>, <<Str(BESLUT_BEVILJAD), Num(1), Num(1)>>}

CallRows ==
    {(KEY_COL :> key) @@ (COL_LAN :> Str(<<"X">>)) @@ (COL_BESLUT :> k[1])
        @@ (COL_EDUCATION_AREA :> Str(<<"A">>)) @@ (COL_ANORDNARE :> Str(<<"a">>))
        @@ (COL_TOTAL_BEVILJADE_PLATSER :> k[2]) @@ (COL_TOTAL_SOKTA :> k[3]) :
        key \in BaseKeys, k \in CallKinds}

\* the sheet on disk: unreadable, or one row of key "A" or of key "B"
CallSheets ==
    {Unreadable}
    \cup {[cols |-> APPS_COLS,
           rows |-> << (KEY_COL :> Str(key)) @@ (COL_NAMN :> Str(<<"n">>))
                        @@ (YEAR_2025 :> Num(1)) @@ (YEAR_2026 :> Num(2)) >>] :
             key \in {<<"A">>, <<"B">>}}

FilterYearArgs == {Num(2020), Str(<<"2021">>), Str(<<"2022">>)}

CallsInit ==
    /\ \/ \E k \in 0..MaxCallRows : \E rs \in [1..k -> CallRows] :
              df = [cols |-> CALL_COLS, rows |-> rs]
       \/ \E w \in 0..MaxRateCount, m \in 0..MaxRateCount : df = CohortFrame(w, m)
    /\ apps \in CallSheets
    /\ call = NoCall
    /\ ret = NoRet
    /\ state = [page |-> "none", df |-> df, prev |-> "none"]

\* what every call leaves of the bookkeeping
Called == state' = [state EXCEPT !.prev = call.op]

CallGetStatistics ==
    \E county \in CountyArgs, label \in LabelArgs :
        \E r \in get_statistics(df, county, label) :
            /\ call' = [op |-> "get_statistics", county |-> county, label |-> label]
            /\ ret' = r
            /\ Called
            /\ UNCHANGED <<df, apps>>

CallComputeNationalStats ==
    \E r \in compute_national_stats(df) :
        /\ call' = [op |-> "compute_national_stats"]
        /\ ret' = r
        /\ Called
        /\ UNCHANGED <<df, apps>>

CallSummarizeProviders ==
    \E r \in summarize_providers(df, COL_ANORDNARE) :
        /\ call' = [op |-> "summarize_providers", provider_col |-> COL_ANORDNARE]
        /\ ret' = r
        /\ Called
        /\ UNCHANGED <<df, apps>>

CallEnrichBaseData ==
    \E suffix \in SuffixArgs :
        /\ call' = [op |-> "enrich_base_data", prefix |-> SOKT_PREFIX, suffix |-> suffix]
        /\ ret' = [raised |-> "",
                   out |-> enrich_base_data(df, apps, KEY_COL, SOKT_PREFIX, suffix)]
        /\ df' = enrich_base_data_df_base(df, apps, KEY_COL)
        /\ Called
        /\ UNCHANGED apps

CallFilterDataByYear ==
    \E year \in FilterYearArgs :
        /\ call' = [op |-> "filter_data_by_year", year |-> year]
        /\ ret' = [raised |-> "", out |-> filter_data_by_year(df, year)]
        /\ Called
        /\ UNCHANGED <<df, apps>>

CallComputeCountyView ==
    \E county \in ViewCountyArgs :
        \E r \in compute_county_view(df, county) :
            /\ call' = [op |-> "compute_county_view", county |-> county]
            /\ ret' = r
            /\ Called
            /\ UNCHANGED <<df, apps>>

CallsNext ==
    \/ CallGetStatistics
    \/ CallComputeNationalStats
    \/ CallSummarizeProviders
    \/ CallEnrichBaseData
    \/ CallFilterDataByYear
    \/ CallComputeCountyView

CallsSpec == CallsInit /\ [][CallsNext]_vars

\* what the last call returns when it is the first call on the loaded record set
FirstCallResults ==
    CASE call.op = "get_statistics" -> get_statistics(state.df, call.county, call.label)
      [] call.op = "compute_national_stats" -> compute_national_stats(state.df)
      [] call.op = "summarize_providers" -> summarize_providers(state.df, call.provider_col)
      [] call.op = "enrich_base_data" ->
             {[raised |-> "",
               out |-> enrich_base_data(state.df, apps, KEY_COL, call.prefix, call.suffix)]}
      [] call.op = "filter_data_by_year" ->
             {[raised |-> "", out |-> filter_data_by_year(state.df, call.year)]}
      [] call.op = "compute_county_view" -> compute_county_view(state.df, call.county)
      [] OTHER -> {ret}

(***************************************************************************)
(* C22: after any sequence of calls of get_statistics,                     *)
(* compute_national_stats, summarize_providers, enrich_base_data,          *)
(* filter_data_by_year and compute_county_view the caller's record set is  *)
(* the one that was loaded, and what the last call returned is what it     *)
(* returns as the first call on that record set.                           *)
(***************************************************************************)
C22_RecordSetUnchanged ==
    /\ df = state.df
    /\ ret \in FirstCallResults

\* compute_county_view ran after an enrich_base_data that went past its key
\* normalisation, on records whose key has a trailing blank
C22_Witness ==
    /\ call.op = "compute_county_view"
    /\ state.prev = "enrich_base_data"
    /\ call.county = Str(<<" ", "X">>)
    /\ apps # Unreadable
    /\ Len(df.rows) = 2
    /\ df.rows[1][KEY_COL] = Str(<<"A", " ">>)
    /\ ret["df_selected_county"] = df
    /\ df = state.df

====
